---- MODULE Spec2Model ----
(***************************************************************************)
(* Model of the node/container framework of dac (dac/core/__init__.py)     *)
(* together with the GUI handlers of dac/gui/__init__.py that drive it.    *)
(*                                                                         *)
(* Python objects live in two heaps, `nodes` (DataNode objects) and `acts` *)
(* (ActionNode objects); an object's identity is its index in the heap.    *)
(* Python values are tagged records [k |-> kind, v |-> payload]; a string  *)
(* is a sequence of one-character strings, so that startswith/endswith are *)
(* computed as the code computes them.                                     *)
(***************************************************************************)
EXTENDS Integers, Sequences, FiniteSets, TLC

(***************************************************************************)
(* Bounds of the model.                                                    *)
(***************************************************************************)
MaxNodes == 4      \* DataNode objects ever constructed in one run
MaxActs == 2       \* ActionNode objects ever constructed in one run
MaxWorkers == 1    \* action bodies in flight on worker threads
MaxSteps == 5      \* handler invocations in one run

(***************************************************************************)
(* Python values.                                                          *)
(***************************************************************************)
PyStr(c) == [k |-> "str", v |-> c]
PyInt(n) == [k |-> "int", v |-> n]
PyList(s) == [k |-> "list", v |-> s]
PyTuple(s) == [k |-> "tuple", v |-> s]
PyDict(s) == [k |-> "dict", v |-> s]      \* s: sequence of [key, val]
PyObj(tname) == [k |-> "obj", v |-> tname]
PyNone == [k |-> "none", v |-> <<>>]
PyEnum(tname, member) == [k |-> "enum", v |-> tname, member |-> member]
Empty == [k |-> "empty", v |-> <<>>]

TypeName(v) == IF v.k = "none" THEN <<"N","o","n","e","T","y","p","e">> ELSE v.v

Truthy(v) ==
    CASE v.k = "none" -> FALSE
      [] v.k \in {"str", "list", "tuple", "dict"} -> Len(v.v) > 0
      [] v.k \in {"int", "float"} -> v.v # 0
      [] v.k = "bool" -> v.v
      [] OTHER -> TRUE

\* the names that occur in the model
NewNodeName == PyStr(<<"[","N","e","w"," ","n","o","d","e","]">>)
DefaultName == PyStr(<<"[","D","e","f","a","u","l","t","]">>)
NameX == PyStr(<<"X">>)
NameY == PyStr(<<"<","Y",">">>)
NameEmpty == PyStr(<<>>)
NameZ == PyStr(<<"Z">>)

BASICTYPES == {"int", "float", "str", "bool"}

RECURSIVE Value2BasicTypes(_)
Value2BasicTypes(v) ==
    IF v.k \in BASICTYPES THEN v
    ELSE IF v.k \in {"list", "tuple"}
    THEN PyList([i \in 1..Len(v.v) |-> Value2BasicTypes(v.v[i])])
    ELSE IF v.k = "dict"
    THEN PyDict([i \in 1..Len(v.v) |->
                    [key |-> v.v[i].key, val |-> Value2BasicTypes(v.v[i].val)]])
    ELSE PyStr(<<"<">> \o TypeName(v) \o <<">">>)

RECURSIVE ContainsOnlyBasicTypes(_)
ContainsOnlyBasicTypes(v) ==
    IF v.k = "str" /\ Len(v.v) > 0 /\ v.v[1] = "<" /\ v.v[Len(v.v)] = ">"
    THEN FALSE
    ELSE IF v.k \in {"list", "tuple"}
    THEN \A i \in 1..Len(v.v) : ContainsOnlyBasicTypes(v.v[i])
    ELSE IF v.k = "dict"
    THEN \A i \in 1..Len(v.v) : ContainsOnlyBasicTypes(v.v[i].val)
    ELSE TRUE

(***************************************************************************)
(* DataNode classes and objects.  A node object is [cls, uuid, d] where d  *)
(* is the public part of __dict__ (the keys not starting with "_").        *)
(***************************************************************************)
SimpleDefinition == "SimpleDefinition"
TimeData == "TimeData"
GearboxDefinition == "GearboxDefinition"
DataClasses == {SimpleDefinition, TimeData, GearboxDefinition}

ClassChars(cls) ==
    CASE cls = TimeData -> <<"T","i","m","e","D","a","t","a">>
      [] cls = GearboxDefinition ->
           <<"G","e","a","r","b","o","x","D","e","f","i","n","i","t","i","o","n">>
      [] OTHER -> <<"S","i","m","p","l","e","D","e","f","i","n","i","t","i","o","n">>

\* uuid strings: the text of a uuid is a pair
NodeUuid(i) == <<"d", i>>
ActUuid(i) == <<"a", i>>

\* cls(name=name, uuid=uuid): NodeBase.__init__ and the class's own __init__
NewDataNode(cls, name, uuid) ==
    [cls |-> cls, uuid |-> uuid,
     d |-> CASE cls = TimeData ->
                  [name |-> name,
                   y |-> PyObj(<<"n","d","a","r","r","a","y">>),
                   dt |-> PyInt(1),
                   y_unit |-> PyStr(<<"-">>),
                   comment |-> PyStr(<<>>)]
             [] cls = GearboxDefinition ->
                  [name |-> name, stages |-> PyList(<<>>)]   \* stages or []
             [] OTHER -> [name |-> name]]

\* get_construct_config raises: only GearboxDefinition's own can, on stages
\* that are not a list of GearStage objects ([stg.config for stg in ...])
DataGetConstructConfigRaises(node) ==
    /\ node.cls = GearboxDefinition
    /\ Truthy(node.d.stages)
    /\ \/ node.d.stages.k \notin {"list", "tuple", "str", "dict"}
       \/ node.d.stages.k \in {"str", "dict"}
       \/ \E i \in 1..Len(node.d.stages.v) : "config" \notin DOMAIN node.d.stages.v[i]

DataGetConstructConfig(node) ==
    IF node.cls = GearboxDefinition
    THEN [name |-> node.d.name,
          stages |-> IF Truthy(node.d.stages)
                     THEN PyList([i \in 1..Len(node.d.stages.v) |->
                                     node.d.stages.v[i].config])
                     ELSE PyList(<<PyDict(<<>>), PyDict(<<>>)>>)]
    ELSE [f \in DOMAIN node.d |-> Value2BasicTypes(node.d[f])]

\* apply_construct_config without the ContainsOnlyBasicTypes test
DataApplyUnfiltered(node, construct_config) ==
    [node EXCEPT
       !.d = [f \in DOMAIN node.d |->
                IF f \in DOMAIN construct_config THEN construct_config[f]
                ELSE node.d[f]]]

\* the keys of __dict__ are the public fields and _uuid (_hash and
\* _construct_config, which no operation of the model reads, are left out)
DataApplyConstructConfig(node, construct_config) ==
    [node EXCEPT
       !.d = [f \in DOMAIN node.d |->
                IF f \in DOMAIN construct_config
                   /\ ContainsOnlyBasicTypes(construct_config[f])
                THEN construct_config[f]
                ELSE node.d[f]],
       !.uuid = IF "_uuid" \in DOMAIN construct_config
                   /\ ContainsOnlyBasicTypes(construct_config["_uuid"])
                THEN construct_config["_uuid"].v
                ELSE @]

DataGetSaveConfig(node) ==
    [uuid |-> node.uuid, class |-> node.cls, cfg |-> DataGetConstructConfig(node)]

(***************************************************************************)
(* DataContext: dict[type, dict[name, node]].  Python dicts keep insertion *)
(* order, so a context is the sequence of its type buckets, each bucket    *)
(* the sequence of its (name, node) items.                                 *)
(***************************************************************************)
GCK == 0
NoNode == -1

EmptyContext == <<>>

BucketIndex(ctx, node_type) ==
    IF \E i \in 1..Len(ctx) : ctx[i].type = node_type
    THEN CHOOSE i \in 1..Len(ctx) : ctx[i].type = node_type
    ELSE 0

ItemIndex(items, node_name) ==
    IF \E j \in 1..Len(items) : items[j].name = node_name
    THEN CHOOSE j \in 1..Len(items) : items[j].name = node_name
    ELSE 0

RemoveAt(s, j) == [i \in 1..(Len(s) - 1) |-> IF i < j THEN s[i] ELSE s[i + 1]]

\* [(node_type, node_name, node)] in iteration order
RECURSIVE NodeIter(_)
NodeIter(ctx) ==
    IF ctx = <<>> THEN <<>>
    ELSE [i \in 1..Len(ctx[1].items) |->
             [type |-> ctx[1].type, name |-> ctx[1].items[i].name,
              node |-> ctx[1].items[i].node]]
         \o NodeIter(Tail(ctx))

\* an add_node that appends the entry without looking for the name
AddNodeDup(ctx, node_type, name, node) ==
    LET b == BucketIndex(ctx, node_type) IN
    IF b # 0
    THEN [ctx EXCEPT ![b].items = Append(@, [name |-> name, node |-> node])]
    ELSE Append(ctx, [type |-> node_type, items |-> <<[name |-> name, node |-> node]>>])

\* self[node_type][name] = node, or self[node_type] = {name: node}
AddNode(ctx, node_type, name, node) ==
    LET b == BucketIndex(ctx, node_type) IN
    IF b # 0
    THEN LET j == ItemIndex(ctx[b].items, name) IN
         IF j # 0
         THEN [ctx EXCEPT ![b].items[j].node = node]
         ELSE [ctx EXCEPT ![b].items = Append(@, [name |-> name, node |-> node])]
    ELSE Append(ctx, [type |-> node_type, items |-> <<[name |-> name, node |-> node]>>])

CtxGetNodeOfType(ctx, node_name, node_type) ==
    LET b == BucketIndex(ctx, node_type) IN
    IF b = 0 THEN NoNode
    ELSE LET j == ItemIndex(ctx[b].items, node_name) IN
         IF j = 0 THEN NoNode ELSE ctx[b].items[j].node

\* del self[node_type][name], a KeyError swallowed by the caller
CtxDelete(ctx, node_type, name) ==
    LET b == BucketIndex(ctx, node_type) IN
    IF b = 0 THEN ctx
    ELSE LET j == ItemIndex(ctx[b].items, name) IN
         IF j = 0 THEN ctx
         ELSE [ctx EXCEPT ![b].items = RemoveAt(@, j)]

CtxHasKey(ctx, node_type, name) ==
    LET b == BucketIndex(ctx, node_type) IN
    b # 0 /\ ItemIndex(ctx[b].items, name) # 0

\* rename_node_to without the del of the old entry
RenameNodeKeepOld(ctx, node_type, old_name, new_name, node) ==
    AddNode(ctx, node_type, new_name, node)

\* the context part of rename_node_to; the caller sets node.name
RenameNodeTo(ctx, node_type, old_name, new_name, node) ==
    AddNode(CtxDelete(ctx, node_type, old_name), node_type, new_name, node)

(***************************************************************************)
(* ActionNode classes.  A signature is the sequence of the parameters of   *)
(* __call__ after self: [key, default, ann], default = Empty for           *)
(* inspect._empty.  An annotation is [k, name, args].                      *)
(***************************************************************************)
LoadAction == "LoadAction"
TruncAction == "TruncAction"
ResampleAction == "ResampleAction"
FilterAction == "FilterAction"
PrepDataAction == "PrepDataAction"
\* the classes of the action menu, and all classes of the timedata module
ActionClasses == {LoadAction, TruncAction}
AllActionClasses == ActionClasses \cup {ResampleAction, FilterAction, PrepDataAction}

\* class PrepDataAction(SAB, seq=[...]): _SEQUENCE, empty for other classes
SEQUENCE(cls) ==
    IF cls = PrepDataAction THEN <<TruncAction, ResampleAction, FilterAction>>
    ELSE <<>>
IsSAB(cls) == cls = PrepDataAction

\* FilterType.LowPass, the default of FilterAction.filter_type
FilterType == <<"F","i","l","t","e","r","T","y","p","e">>
LowPass == PyEnum(FilterType, <<"L","o","w","P","a","s","s">>)
FilterTypeMembers == {<<"L","o","w","P","a","s","s">>,
                      <<"B","a","n","d","P","a","s","s">>, <<"B","a","n","d","S","t","o","p">>}

AnnPlain(name) == [k |-> "plain", name |-> name, args |-> <<>>]
AnnData(cls) == [k |-> "data", name |-> cls, args |-> <<>>]
AnnList(a) == [k |-> "list", name |-> "list", args |-> <<a>>]
AnnTuple(as) == [k |-> "tuple", name |-> "tuple", args |-> as]
AnnEmpty == [k |-> "empty", name |-> "_empty", args |-> <<>>]
AnnEnum(tname) == [k |-> "enum", name |-> tname, args |-> <<>>]

AnnChars(ann) ==
    CASE ann.k = "data" -> ClassChars(ann.name)
      [] ann.k = "enum" -> ann.name
      [] ann.name = "float" -> <<"f","l","o","a","t">>
      [] ann.name = "int" -> <<"i","n","t">>
      [] ann.name = "bool" -> <<"b","o","o","l">>
      [] OTHER -> <<"s","t","r">>

Param(key, default, ann) == [key |-> key, default |-> default, ann |-> ann]

\* PAB: the body runs on a worker thread
IsPAB(cls) == cls \in {LoadAction, PrepDataAction}

CAPTION(cls) ==
    CASE cls = LoadAction ->
           PyStr(<<"L","o","a","d"," ","m","e","a","s","u","r","e","m","e","n","t",
                   " ","d","a","t","a">>)
      [] cls = PrepDataAction ->
           PyStr(<<"N","o","t"," ","i","m","p","l","e","m","e","n","t","e","d"," ",
                   "s","e","q","u","e","n","c","e">>)
      [] cls \in {ResampleAction, FilterAction} ->
           PyStr(<<"N","o","t"," ","i","m","p","l","e","m","e","n","t","e","d"," ",
                   "a","c","t","i","o","n">>)
      [] OTHER ->
           PyStr(<<"T","r","u","n","c","a","t","e"," ","T","i","m","e","D","a","t","a">>)

\* inspect.signature(cls.__call__) without self, for the classes that are
\* not sequences (a sequence's _SIGNATURE is the dict of its SEQUENCE's)
SIGNATURE(cls) ==
    CASE cls = LoadAction ->
           << Param("fpaths", Empty, AnnList(AnnPlain("str"))),
              Param("ftype", PyNone, AnnPlain("str")) >>
      [] cls = ResampleAction ->
           << Param("channels", Empty, AnnList(AnnData(TimeData))),
              Param("dt", PyInt(1), AnnPlain("float")) >>
      [] cls = FilterAction ->
           << Param("channels", Empty, AnnList(AnnData(TimeData))),
              Param("freq", Empty, AnnTuple(<<AnnPlain("float"), AnnPlain("float")>>)),
              Param("order", PyInt(3), AnnPlain("int")),
              Param("filter_type", LowPass, AnnEnum(FilterType)) >>
      [] cls = PrepDataAction -> <<>>
      [] OTHER ->
           << Param("channels", Empty, AnnList(AnnData(TimeData))),
              Param("duration", PyTuple(<<PyInt(0), PyInt(0)>>),
                    AnnTuple(<<AnnPlain("float"), AnnPlain("float")>>)) >>

\* the return annotation of __call__
ReturnAnnotation(cls) ==
    CASE cls = LoadAction -> AnnList(AnnData(TimeData))
      [] OTHER -> AnnEmpty

ParamKeys(cls) == {SIGNATURE(cls)[i].key : i \in 1..Len(SIGNATURE(cls))}

RECURSIVE Annotation2Config(_)
Annotation2Config(ann) ==
    IF ann.k \in {"list", "tuple"}
    THEN PyList([i \in 1..Len(ann.args) |-> Annotation2Config(ann.args[i])])
    ELSE PyStr(<<"<">> \o AnnChars(ann) \o <<">">>)

(***************************************************************************)
(* ActionNode objects: [cls, uuid, name, status, out_name, context_key,    *)
(* cc] where cc is _construct_config, a mapping from keys to values.       *)
(***************************************************************************)
INIT == "INIT"
CONFIGURED == "CONFIGURED"
COMPLETE == "COMPLETE"
FAILED == "FAILED"
ActionStatus == {INIT, CONFIGURED, COMPLETE, FAILED}

EmptyDict == [key \in {} |-> PyNone]

\* SequenceActionBase._GetCCFromS of one signature, as a dict value
GetCCFromS(signature) ==
    PyDict([i \in 1..Len(signature) |->
              [key |-> signature[i].key,
               val |-> IF signature[i].default.k # "empty" THEN signature[i].default
                       ELSE IF signature[i].ann.k # "empty"
                       THEN Annotation2Config(signature[i].ann)
                       ELSE PyStr(<<"<","A","n","y",">">>)]])

\* _GetCCFromS of the dict of signatures of a sequence class
SeqConstructConfig(cls) ==
    [key \in {SEQUENCE(cls)[i] : i \in 1..Len(SEQUENCE(cls))} |->
        GetCCFromS(SIGNATURE(key))]

\* ActionNode.__init__, and SequenceActionBase.__init__ for a sequence class
NewActionNode(cls, context_key, uuid) ==
    [cls |-> cls, uuid |-> uuid, name |-> CAPTION(cls), status |-> INIT,
     out_name |-> PyNone, context_key |-> context_key,
     cc |-> IF IsSAB(cls) THEN SeqConstructConfig(cls) ELSE EmptyDict]

\* the first lines of get_construct_config: an empty _construct_config is
\* filled in place from the signature, and out_name from the return annotation
SeedConstructConfig(a) ==
    IF DOMAIN a.cc # {} THEN a
    ELSE LET sig == SIGNATURE(a.cls)
             ret == ReturnAnnotation(a.cls)
         IN [a EXCEPT
               !.cc = [key \in ParamKeys(a.cls) |->
                         LET p == CHOOSE q \in {sig[i] : i \in 1..Len(sig)} : q.key = key
                         IN IF p.default.k = "enum" THEN PyStr(p.default.member)
                            ELSE IF p.default.k # "empty" THEN p.default
                            ELSE IF p.ann.k # "empty" THEN Annotation2Config(p.ann)
                            ELSE PyStr(<<"<","A","n","y",">">>)],
               !.out_name = IF ret.k # "empty" /\ ret.name # "list"
                            THEN PyStr(<<"<">> \o AnnChars(ret) \o <<">">>)
                            ELSE @]

\* com_config as returned by get_construct_config
ActionGetConstructConfig(a) ==
    LET s == SeedConstructConfig(a)
        keys == {"name"} \cup DOMAIN s.cc
                \cup (IF s.out_name.k # "none" THEN {"out_name"} ELSE {})
    IN [key \in keys |->
          IF key = "out_name" /\ s.out_name.k # "none" THEN s.out_name
          ELSE IF key \in DOMAIN s.cc THEN s.cc[key]
          ELSE s.name]

ActionApplyConstructConfig(a, construct_config) ==
    [a EXCEPT
       !.name = IF "name" \in DOMAIN construct_config
                THEN construct_config["name"] ELSE @,
       !.out_name = IF "out_name" \in DOMAIN construct_config
                    THEN construct_config["out_name"] ELSE @,
       !.cc = construct_config,
       !.status = CONFIGURED]

NoContext == <<"none">>

\* context_uuid: the uuid of the object context_key refers to
ActionGetSaveConfig(a, context_uuid) ==
    [uuid |-> a.uuid, class |-> a.cls,
     context |-> IF a.context_key # GCK THEN context_uuid ELSE NoContext,
     cfg |-> ActionGetConstructConfig(a)]

(***************************************************************************)
(* Container lookups and parameter resolution.  contexts is the            *)
(* defaultdict of the container: a function from keys (GCK or a node       *)
(* object) to DataContexts; a missing key reads as an empty context.       *)
(***************************************************************************)
ContextOf(contexts, key) ==
    IF key \in DOMAIN contexts THEN contexts[key] ELSE EmptyContext

\* the defaultdict creates the entry on first access
Touch(contexts, key) ==
    IF key \in DOMAIN contexts THEN contexts ELSE contexts @@ (key :> EmptyContext)

\* a lookup that stops at the current context
ContainerGetNodeOfTypeNoFallback(contexts, current_key, node_name, node_type) ==
    CtxGetNodeOfType(ContextOf(contexts, current_key), node_name, node_type)

\* Container.get_node_of_type: the current context, then Global
ContainerGetNodeOfType(contexts, current_key, node_name, node_type) ==
    LET node == CtxGetNodeOfType(ContextOf(contexts, current_key), node_name, node_type)
    IN IF node # NoNode THEN node
       ELSE IF current_key # GCK
       THEN CtxGetNodeOfType(ContextOf(contexts, GCK), node_name, node_type)
       ELSE NoNode

PyNode(n) == [k |-> "node", v |-> n]
Ok(val) == [ok |-> TRUE, val |-> val, err |-> "", arg |-> ""]
Raise(err, arg) == [ok |-> FALSE, val |-> PyNone, err |-> err, arg |-> arg]

\* the elements `for c in config` yields; <<>> stands for a TypeError when
\* config is not iterable (see IsIterable)
IsIterable(config) == config.k \in {"list", "tuple", "str", "dict"}
IterOf(config) ==
    CASE config.k \in {"list", "tuple"} -> config.v
      [] config.k = "str" -> [i \in 1..Len(config.v) |-> PyStr(<<config.v[i]>>)]
      [] config.k = "dict" -> [i \in 1..Len(config.v) |-> config.v[i].key]
      [] OTHER -> <<>>

RECURSIVE GetValueOfAnnotation(_, _, _, _)
RECURSIVE ResolveList(_, _, _, _)
RECURSIVE ResolveListStrict(_, _, _, _)
RECURSIVE ResolveTuple(_, _, _, _)

\* a list branch without the except clause
ResolveListStrict(contexts, current_key, ann, elems) ==
    IF elems = <<>> THEN Ok(PyList(<<>>))
    ELSE LET r == GetValueOfAnnotation(contexts, current_key, ann, Head(elems)) IN
         IF r.ok
         THEN LET rest == ResolveListStrict(contexts, current_key, ann, Tail(elems)) IN
              IF rest.ok THEN Ok(PyList(<<r.val>> \o rest.val.v)) ELSE rest
         ELSE r

\* the loop of the list branch: NodeNotFoundError drops the element
ResolveList(contexts, current_key, ann, elems) ==
    IF elems = <<>> THEN Ok(PyList(<<>>))
    ELSE LET r == GetValueOfAnnotation(contexts, current_key, ann, Head(elems)) IN
         IF r.ok
         THEN LET rest == ResolveList(contexts, current_key, ann, Tail(elems)) IN
              IF rest.ok THEN Ok(PyList(<<r.val>> \o rest.val.v)) ELSE rest
         ELSE IF r.err = "NodeNotFoundError"
         THEN ResolveList(contexts, current_key, ann, Tail(elems))
         ELSE r

\* [f(a, c) for a, c in zip(ann.__args__, config)]
ResolveTuple(contexts, current_key, anns, elems) ==
    IF anns = <<>> \/ elems = <<>> THEN Ok(PyList(<<>>))
    ELSE LET r == GetValueOfAnnotation(contexts, current_key, Head(anns), Head(elems)) IN
         IF r.ok
         THEN LET rest == ResolveTuple(contexts, current_key, Tail(anns), Tail(elems)) IN
              IF rest.ok THEN Ok(PyList(<<r.val>> \o rest.val.v)) ELSE rest
         ELSE r

GetValueOfAnnotation(contexts, current_key, ann, config) ==
    IF config.k = "none" THEN Ok(PyNone)
    ELSE IF ann.k = "enum"
    THEN IF config.k = "enum" THEN Ok(config)
         ELSE IF config.k = "str" /\ config.v \in FilterTypeMembers
         THEN Ok(PyEnum(ann.name, config.v))
         ELSE Raise("KeyError", "")
    ELSE IF ann.k = "data"
    THEN IF config.k \in {"list", "dict"} THEN Raise("TypeError", "unhashable")
         ELSE LET value == ContainerGetNodeOfType(contexts, current_key, config, ann.name)
              IN IF value = NoNode THEN Raise("NodeNotFoundError", ann.name)
                 ELSE Ok(PyNode(value))
    ELSE IF ann.k = "list" /\ Len(ann.args) = 1
    THEN IF IsIterable(config)
         THEN ResolveList(contexts, current_key, ann.args[1], IterOf(config))
         ELSE Raise("TypeError", "not iterable")
    ELSE IF ann.k = "tuple"
    THEN IF IsIterable(config)
         THEN ResolveTuple(contexts, current_key, ann.args, IterOf(config))
         ELSE Raise("TypeError", "not iterable")
    ELSE IF ann.k = "list" THEN Raise("NotImplementedError", "")
    ELSE Ok(config)

\* value = construct_config.get(key, param.default)
StoredValue(construct_config, p) ==
    IF p.key \in DOMAIN construct_config THEN construct_config[p.key] ELSE p.default

\* the loop of prepare_params_for_action over signature[i..]; params is the
\* mapping built so far.  The result is [ok, val] with val the params
\* mapping, or [ok = FALSE, err, arg] for the exception that leaves the loop.
RECURSIVE PrepareLoop(_, _, _, _, _, _)
PrepareLoop(contexts, current_key, signature, construct_config, i, params) ==
    IF i > Len(signature) THEN [ok |-> TRUE, val |-> params, err |-> "", arg |-> ""]
    ELSE LET p == signature[i]
             value == StoredValue(construct_config, p)
         IN IF value.k = "empty"
            THEN Raise("Exception", p.key)
            ELSE LET r == GetValueOfAnnotation(contexts, current_key, p.ann, value) IN
                 IF r.ok
                 THEN PrepareLoop(contexts, current_key, signature, construct_config,
                                  i + 1, params @@ (p.key :> r.val))
                 ELSE r

\* a resolution that looks the names up in a container without nodes, as the
\* container was before anything was added
PrepareParamsStale(contexts, current_key, signature, construct_config) ==
    PrepareLoop((GCK :> EmptyContext), GCK, signature, construct_config, 1, EmptyDict)

PrepareParamsForAction(contexts, current_key, signature, construct_config) ==
    PrepareLoop(contexts, current_key, signature, construct_config, 1, EmptyDict)

(***************************************************************************)
(* Save and load.  A container is [nodes, acts, actions, contexts,         *)
(* current_key]: the two heaps and the three attributes of Container.      *)
(* A save config is [actions, global_nodes], each record                   *)
(* [uuid, class, cfg] (an action record also [context]).                   *)
(***************************************************************************)
ContainerGetSaveConfig(c) ==
    LET g == NodeIter(ContextOf(c.contexts, GCK)) IN
    [actions |->
        [i \in 1..Len(c.actions) |->
            LET a == c.acts[c.actions[i]] IN
            ActionGetSaveConfig(a, IF a.context_key # GCK
                                   THEN c.nodes[a.context_key].uuid ELSE NoContext)],
     global_nodes |-> [i \in 1..Len(g) |-> DataGetSaveConfig(c.nodes[g[i].node])]]

\* the data nodes parse_save_config constructs, in record order
LoadedNodes(g_nodes) ==
    [i \in 1..Len(g_nodes) |->
        DataApplyConstructConfig(
            NewDataNode(g_nodes[i].class, DefaultName, g_nodes[i].uuid),
            g_nodes[i].cfg)]

\* container.GlobalContext after the first i records
RECURSIVE LoadedGlobal(_, _)
LoadedGlobal(heap, i) ==
    IF i = 0 THEN EmptyContext
    ELSE AddNode(LoadedGlobal(heap, i - 1), heap[i].cls, heap[i].d.name, i)

\* nodes[uuid]: the node of the last record carrying uuid, NoNode if none
NodeOfUuid(heap, uuid) ==
    LET hits == {i \in 1..Len(heap) : heap[i].uuid = uuid} IN
    IF hits = {} THEN NoNode ELSE CHOOSE i \in hits : \A j \in hits : j <= i

\* an action loop without the `continue`
KeepsRecordAll(heap, act_config) == TRUE

\* FALSE for the records the action loop leaves with `continue`
KeepsRecord(heap, act_config) ==
    act_config.context = NoContext \/ NodeOfUuid(heap, act_config.context) # NoNode

LoadedAction(heap, act_config) ==
    ActionApplyConstructConfig(
        NewActionNode(act_config.class,
                      IF act_config.context = NoContext THEN GCK
                      ELSE NodeOfUuid(heap, act_config.context),
                      act_config.uuid),
        act_config.cfg)

ParseSaveConfig(config) ==
    LET heap == LoadedNodes(config.global_nodes)
        kept == SelectSeq(config.actions, LAMBDA r : KeepsRecord(heap, r))
    IN [nodes |-> heap,
        acts |-> [i \in 1..Len(kept) |-> LoadedAction(heap, kept[i])],
        actions |-> [i \in 1..Len(kept) |-> i],
        contexts |-> IF Len(heap) = 0 THEN [key \in {} |-> EmptyContext]
                     ELSE (GCK :> LoadedGlobal(heap, Len(heap))),
        current_key |-> GCK]

(***************************************************************************)
(* State: the container held by the main window, the worker threads, the   *)
(* project file, and the outcome of the last handler.                      *)
(***************************************************************************)
VARIABLES
    nodes,        \* heap of DataNode objects; the object's identity is its index
    acts,         \* heap of ActionNode objects
    actions,      \* container.actions: sequence of ActionNode identities
    contexts,     \* container.contexts
    current_key,  \* container.current_key
    workers,      \* ThreadWorkers in flight: [act, params, complete_cb]
    file,         \* the project files by path: file[fpath] is a save config
    project_config_fpath,  \* MainWindow.project_config_fpath: <<fpath>> or NoPath
    registry,     \* Container._global_node_types, Container._context_action_types
    res,          \* the last handler: its name, its argument, how it ended
    steps         \* handlers invoked so far

vars == <<nodes, acts, actions, contexts, current_key, workers, file,
          project_config_fpath, registry, res, steps>>

Container == [nodes |-> nodes, acts |-> acts, actions |-> actions,
              contexts |-> contexts, current_key |-> current_key]

\* the last handler op(obj) returned / was left by an exception raised in
\* `raised`: "remove" (the KeyError of remove_global_node), "prepare"
\* (prepare_params_for_action) or "run" (pre_run, the body or post_run);
\* `calls` lists what the handler called on the executed action, in order
\* `chain` is NoChain, or <<[ran, ended, raised]>> when the handler went
\* through run_next_action: the actions it passed to run_action, in order,
\* whether action_yielder was exhausted, and the exception that left it
NoChain == <<>>
Returned(op, obj) ==
    [op |-> op, obj |-> obj, raised |-> "", calls |-> <<>>, chain |-> NoChain]
Raised(op, obj, in) ==
    [op |-> op, obj |-> obj, raised |-> in, calls |-> <<>>, chain |-> NoChain]

\* action.pre_run(); rst = action(**params); action.post_run(): the calls
\* made when the body returns, and when it raises (the hooks of the
\* action classes of the model are the empty ones of ActionNode)
CallsOfReturn == <<"pre_run", "__call__", "post_run">>
CallsOfRaise == <<"pre_run", "__call__">>
Executed(r, calls) == [r EXCEPT !.calls = calls]

\* one more handler invocation
Tick == steps < MaxSteps /\ steps' = steps + 1

\* no project file written yet; the files are <<config, ...>>, a path is
\* the place of its file
NoFile == <<>>

\* project_config_fpath = None
NoPath == <<>>

\* the class-level lists of Container before any plugin document is used
EmptyRegistry == [global_node_types |-> <<>>, context_action_types |-> [t \in {} |-> <<>>]]

GlobalContext == ContextOf(contexts, GCK)
CurrentContext == ContextOf(contexts, current_key)

\* the node objects the data list shows: Global items, and Local items
GlobalItems == {NodeIter(GlobalContext)[i].node : i \in 1..Len(NodeIter(GlobalContext))}
LocalItems ==
    IF current_key = GCK THEN {}
    ELSE {NodeIter(CurrentContext)[i].node : i \in 1..Len(NodeIter(CurrentContext))}

\* the actions the action list shows
ActionsInCurrentContext ==
    SelectSeq(actions, LAMBDA a : acts[a].context_key = current_key)
ActionItems == {ActionsInCurrentContext[i] : i \in 1..Len(ActionsInCurrentContext)}

IndexOf(seq, x) == CHOOSE i \in 1..Len(seq) : seq[i] = x
InsertAt(seq, i, x) == SubSeq(seq, 1, i - 1) \o <<x>> \o SubSeq(seq, i, Len(seq))
Without(seq, x) == SelectSeq(seq, LAMBDA y : y # x)

\* DataListWidget.refresh reads GlobalContext and, with a local context
\* active, CurrentContext
Refresh(ctxs, key) == Touch(Touch(ctxs, GCK), key)

\* the names a user types into the editor
UserNames == {NameX, NameY, NameEmpty}

Init ==
    /\ nodes = <<>>
    /\ acts = <<>>
    /\ actions = <<>>
    /\ contexts = (GCK :> EmptyContext)
    /\ current_key = GCK
    /\ workers = <<>>
    /\ file = NoFile
    /\ res = Returned("init", 0)
    /\ project_config_fpath = NoPath
    /\ registry = EmptyRegistry
    /\ steps = 0

(***************************************************************************)
(* Data list handlers.                                                     *)
(***************************************************************************)
GlobalDataTypes == {SimpleDefinition}

\* cb_creation of the Global item's menu
CreateNode(n_t) ==
    /\ Tick
    /\ Len(nodes) < MaxNodes
    /\ LET id == Len(nodes) + 1 IN
       /\ nodes' = Append(nodes, NewDataNode(n_t, NewNodeName, NodeUuid(id)))
       /\ contexts' = Refresh([Touch(contexts, GCK) EXCEPT
                                  ![GCK] = AddNode(@, n_t, NewNodeName, id)],
                              current_key)
       /\ res' = Returned("CreateNode", id)
    /\ UNCHANGED <<acts, actions, current_key, workers, file, project_config_fpath, registry>>

\* the editor's Apply on a data node: a click on the item opens the node's
\* construct config in the editor, the user edits the name and applies
ApplyNodeConfig(node, new_name) ==
    /\ Tick
    /\ LET old == nodes[node]
           config == [DataGetConstructConfig(old) EXCEPT !.name = new_name]
           rename == Truthy(new_name) /\ new_name # old.d.name
           renamed == IF rename THEN [old EXCEPT !.d.name = new_name] ELSE old
           ctxs == IF rename
                   THEN [Touch(contexts, GCK) EXCEPT
                            ![GCK] = RenameNodeTo(@, old.cls, old.d.name, new_name, node)]
                   ELSE contexts
       IN /\ nodes' = [nodes EXCEPT ![node] = DataApplyConstructConfig(renamed, config)]
          /\ contexts' = Refresh(ctxs, current_key)
    /\ res' = Returned("ApplyNodeConfig", node)
    /\ UNCHANGED <<acts, actions, current_key, workers, file, project_config_fpath, registry>>

\* cb_activate / action_item_dblclicked: activate the item's node, or
\* de-activate when it is the current key
Activate(key_object) ==
    /\ Tick
    /\ LET key == IF key_object = current_key THEN GCK ELSE key_object IN
       /\ current_key' = key
       /\ contexts' = Refresh(Touch(contexts, key), key)
    /\ res' = Returned("Activate", key_object)
    /\ UNCHANGED <<nodes, acts, actions, workers, file, project_config_fpath, registry>>

RemoveKey(ctxs, key) == [k \in (DOMAIN ctxs) \ {key} |-> ctxs[k]]

\* Container.remove_global_node when Global has the type and name of the
\* node as a key
RemoveGlobalNodeContexts(ctxs, node_object) ==
    RemoveKey([Touch(ctxs, GCK) EXCEPT
                  ![GCK] = CtxDelete(@, nodes[node_object].cls,
                                     nodes[node_object].d.name)],
              node_object)

RemoveGlobalNodeActions(acs, node_object) ==
    SelectSeq(acs, LAMBDA a : acts[a].context_key # node_object)

\* cb_del of a Global item
DeleteNode(key_object) ==
    /\ Tick
    /\ LET key == IF key_object = current_key THEN GCK ELSE current_key
           found == CtxHasKey(GlobalContext, nodes[key_object].cls,
                              nodes[key_object].d.name)
       IN /\ current_key' = key
          /\ IF found
             THEN /\ contexts' = Refresh(RemoveGlobalNodeContexts(contexts, key_object), key)
                  /\ actions' = RemoveGlobalNodeActions(actions, key_object)
                  \* self.actions is a new list: an action_yielder in
                  \* flight keeps walking the former one
                  /\ workers' = [w \in 1..Len(workers) |->
                                   IF workers[w].complete_cb # <<>>
                                      /\ workers[w].complete_cb[1].list = <<>>
                                   THEN [workers[w] EXCEPT
                                            !.complete_cb[1].list = <<actions>>]
                                   ELSE workers[w]]
             ELSE \* KeyError leaves remove_global_node at its first line
                  /\ contexts' = Touch(contexts, GCK)
                  /\ actions' = actions
                  /\ workers' = workers
          /\ res' = IF found THEN Returned("DeleteNode", key_object)
                     ELSE Raised("DeleteNode", key_object, "remove")
    /\ UNCHANGED <<nodes, acts, file, project_config_fpath, registry>>

(***************************************************************************)
(* Action list handlers.                                                   *)
(***************************************************************************)
\* cb_creation of add_new_actions: index = 0 stands for index=None (append),
\* index > 0 for "Insert before" the action at that place of container.actions;
\* the edit request that follows opens the editor, which seeds the config
CreateAction(a_t, index) ==
    /\ Tick
    /\ Len(acts) < MaxActs
    /\ LET id == Len(acts) + 1
           a == NewActionNode(a_t, current_key, ActUuid(id))
       IN /\ acts' = Append(acts, SeedConstructConfig(a))
          /\ actions' = IF index = 0 THEN Append(actions, id)
                        ELSE InsertAt(actions, index, id)
          /\ res' = Returned("CreateAction", id)
    /\ UNCHANGED <<nodes, contexts, current_key, workers, file, project_config_fpath, registry>>

\* cb_del of the action menu
DeleteAction(a) ==
    /\ Tick
    /\ actions' = Without(actions, a)
    /\ res' = Returned("DeleteAction", a)
    /\ UNCHANGED <<nodes, acts, contexts, current_key, workers, file, project_config_fpath, registry>>

\* cb_mvaft: move oa behind a
MoveAfter(oa, a) ==
    /\ Tick
    /\ LET rest == Without(actions, oa)
           idx == IndexOf(rest, a)
       IN actions' = InsertAt(rest, idx + 1, oa)
    /\ res' = Returned("MoveAfter", oa)
    /\ UNCHANGED <<nodes, acts, contexts, current_key, workers, file, project_config_fpath, registry>>

\* cb_cp2: copy oa to the context of a Global node of the current key's type
CopyAction(oa, context_key) ==
    /\ Tick
    /\ Len(acts) < MaxActs
    /\ LET id == Len(acts) + 1
           oac == ActionGetConstructConfig(acts[oa])
           a == NewActionNode(acts[oa].cls, context_key, ActUuid(id))
       IN /\ acts' = Append([acts EXCEPT ![oa] = SeedConstructConfig(@)],
                            ActionApplyConstructConfig(a, oac))
          /\ actions' = Append(actions, id)
          /\ res' = Returned("CopyAction", id)
    /\ UNCHANGED <<nodes, contexts, current_key, workers, file, project_config_fpath, registry>>

(***************************************************************************)
(* Running an action.                                                      *)
(***************************************************************************)
\* the names of the TimeData nodes load_tdms reads from a TDMS file
LoadResults == {<<NameX, NameY>>}

\* str.upper on the characters of the file names of the model
Upper(ch) ==
    CASE ch = "t" -> "T" [] ch = "d" -> "D" [] ch = "m" -> "M" [] ch = "s" -> "S"
      [] ch = "f" -> "F" [] ch = "r" -> "R"
      [] OTHER -> ch

\* fpath.upper().endswith("TDMS")
EndsWithTDMS(fpath) ==
    LET u == [i \in 1..Len(fpath.v) |-> Upper(fpath.v[i])] IN
    Len(u) >= 4 /\ SubSeq(u, Len(u) - 3, Len(u)) = <<"T", "D", "M", "S">>

\* what the body of a LoadAction can return for params: the nodes of its
\* TDMS files, nothing for other files
WorkerResults(params) ==
    IF \E i \in 1..Len(params["fpaths"].v) : EndsWithTDMS(params["fpaths"].v[i])
    THEN LoadResults ELSE {<<>>}

\* the names of the nodes the body of a synchronous action returns for
\* params, in order; the body raises when it cannot use params
BodyCanReturn(cls, params) ==
    /\ cls = TruncAction
    /\ params["channels"].k = "list"
    /\ \A i \in 1..Len(params["channels"].v) : params["channels"].v[i].k = "node"
    /\ params["duration"].k = "list" /\ Len(params["duration"].v) = 2

BodyResultNames(cls, params) ==
    [i \in 1..Len(params["channels"].v) |-> nodes[params["channels"].v[i].v].d.name]

\* completed(rst) up to the status: the result nodes are constructed and
\* added to the context that is current now
AddResults(ctxs, names) ==
    LET n == Len(nodes)
        RECURSIVE Add(_, _)
        Add(c, i) == IF i = 0 THEN c
                     ELSE AddNode(Add(c, i - 1), TimeData, names[i], n + i)
    IN [Touch(ctxs, current_key) EXCEPT ![current_key] = Add(@, Len(names))]

ResultNodes(names) ==
    [i \in 1..Len(names) |-> NewDataNode(TimeData, names[i], NodeUuid(Len(nodes) + i))]

\* the status completed(rst) leaves the action with
CompletedStatus(a) == COMPLETE

\* the status of an action whose execution raised: no handler assigns one
RaisedStatus(a) == a.status

\* completed(rst) for the result names; A is the action heap to update
Completed(A, a, names) ==
    /\ nodes' = nodes \o ResultNodes(names)
    /\ contexts' = Refresh(AddResults(contexts, names), current_key)
    /\ acts' = [A EXCEPT ![a].status = CompletedStatus(A[a])]

\* the visual actions: the classes of the model that derive from VAB are
\* the sequences (SequenceActionBase(PAB, VAB))
IsVAB(cls) == IsSAB(cls)

\* complete_cb=None; the complete_cb of run_all_actions is <<[pos, list]>>,
\* the state of action_yielder: the place of container.actions its list
\* iterator reads next, and the list it walks: container.actions while
\* list is <<>>, else <<the list object that remove_global_node replaced>>
NoCb == <<>>

\* the list object action_yielder walks
YielderList(it) == IF it.list = <<>> THEN actions ELSE it.list[1]

\* completed(rst) of a synchronous action on the heaps and contexts of S
CompletedOn(S, a, params) ==
    LET ch == params["channels"].v
        n == Len(S.nodes)
        names == [i \in 1..Len(ch) |-> S.nodes[ch[i].v].d.name]
        RECURSIVE Add(_, _)
        Add(c, i) == IF i = 0 THEN c
                     ELSE AddNode(Add(c, i - 1), TimeData, names[i], n + i)
    IN [S EXCEPT
          !.nodes = @ \o [i \in 1..Len(names) |->
                             NewDataNode(TimeData, names[i], NodeUuid(n + i))],
          !.contexts = Refresh([Touch(@, current_key) EXCEPT
                                   ![current_key] = Add(@, Len(names))], current_key),
          !.acts = [@ EXCEPT ![a].status = CompletedStatus(S.acts[a])]]

\* run_next_action(): next(action_yielder) and run_action(action,
\* run_next_action), which calls run_next_action again from completed(rst)
\* of a synchronous action.  S holds the heaps and contexts so far and what
\* the chain did; the result is the set of ways the handler can end.
RECURSIVE RunNextAction(_, _)
RunNextAction(S, it) ==
    LET lst == YielderList(it)
        yields(i) == /\ S.acts[lst[i]].context_key = current_key
                     /\ ~IsVAB(S.acts[lst[i]].cls)
        rest == {i \in it.pos..Len(lst) : yields(i)}
    IN IF rest = {} THEN {[S EXCEPT !.ended = TRUE]}
       ELSE LET i == CHOOSE j \in rest : \A k \in rest : j <= k
                a == lst[i]
                r == PrepareParamsForAction(S.contexts, current_key,
                                            SIGNATURE(S.acts[a].cls), S.acts[a].cc)
                T == [S EXCEPT !.ran = Append(@, a)]
                cb == [it EXCEPT !.pos = i + 1]
            IN IF ~r.ok THEN {[T EXCEPT !.raised = "prepare"]}
               ELSE IF IsPAB(S.acts[a].cls)
               THEN {[T EXCEPT !.started = <<[act |-> a, params |-> r.val,
                                              complete_cb |-> <<cb>>]>>]}
               ELSE {[T EXCEPT !.raised = "run"]}
                    \cup (IF /\ BodyCanReturn(S.acts[a].cls, r.val)
                             /\ Len(S.nodes) + Len(r.val["channels"].v) <= MaxNodes
                          THEN RunNextAction(CompletedOn(T, a, r.val), cb)
                          ELSE {})

\* the handler state run_next_action starts from
ChainStart(N, A, C) ==
    [nodes |-> N, acts |-> A, contexts |-> C, ran |-> <<>>, ended |-> FALSE,
     raised |-> "", started |-> <<>>]

\* the handler ends as o: the heaps, the contexts, the worker it started
ChainEnds(op, obj, kept, o) ==
    /\ Len(kept) + Len(o.started) <= MaxWorkers
    /\ nodes' = o.nodes
    /\ acts' = o.acts
    /\ contexts' = o.contexts
    /\ workers' = kept \o o.started
    /\ res' = [op |-> op, obj |-> obj, raised |-> "", calls |-> <<>>,
               chain |-> <<[ran |-> o.ran, ended |-> o.ended, raised |-> o.raised]>>]

\* run_all_actions
RunAllActions ==
    /\ Tick
    /\ \E o \in RunNextAction(ChainStart(nodes, acts, contexts),
                              [pos |-> 1, list |-> <<>>]) :
          ChainEnds("RunAllActions", 0, workers, o)
    /\ UNCHANGED <<actions, current_key, file, project_config_fpath, registry>>

\* run_action(action) with the action heap A, called by handler op
RunActionOn(op, A, a) ==
    LET r == PrepareParamsForAction(contexts, current_key, SIGNATURE(A[a].cls), A[a].cc)
    IN IF ~r.ok
       THEN \* the exception leaves run_action before anything else happens
            /\ acts' = A
            /\ res' = Raised(op, a, "prepare")
            /\ UNCHANGED <<nodes, actions, contexts, current_key, workers, file, project_config_fpath, registry>>
       ELSE IF IsPAB(A[a].cls)
       THEN /\ Len(workers) < MaxWorkers
            /\ workers' = Append(workers, [act |-> a, params |-> r.val,
                                          complete_cb |-> NoCb])
            /\ acts' = A
            /\ res' = Returned(op, a)
            /\ UNCHANGED <<nodes, actions, contexts, current_key, file, project_config_fpath, registry>>
       ELSE \/ \* pre_run, the body or post_run raises
               /\ acts' = [A EXCEPT ![a].status = RaisedStatus(A[a])]
               /\ res' = Executed(Raised(op, a, "run"), CallsOfRaise)
               /\ UNCHANGED <<nodes, actions, contexts, current_key, workers, file, project_config_fpath, registry>>
            \/ \* the body returns rst, completed(rst) runs
               /\ BodyCanReturn(A[a].cls, r.val)
               /\ LET names == BodyResultNames(A[a].cls, r.val) IN
                  /\ Len(nodes) + Len(names) <= MaxNodes
                  /\ Completed(A, a, names)
               /\ res' = Executed(Returned(op, a), CallsOfReturn)
               /\ UNCHANGED <<actions, current_key, workers, file, project_config_fpath, registry>>

\* action_item_dblclicked
RunAction(a) == Tick /\ RunActionOn("RunAction", acts, a)

\* the worker's fn returned: the result signal calls completed(rst)
WorkerDone(w, names) ==
    /\ Tick
    /\ Len(nodes) + Len(names) <= MaxNodes
    /\ IF workers[w].complete_cb = NoCb
       THEN /\ Completed(acts, workers[w].act, names)
            /\ workers' = RemoveAt(workers, w)
            /\ res' = Executed(Returned("WorkerDone", workers[w].act), CallsOfReturn)
       ELSE \* complete_cb() goes on with the run-all
            \E o \in RunNextAction(
                         ChainStart(nodes \o ResultNodes(names),
                                    [acts EXCEPT ![workers[w].act].status =
                                                     CompletedStatus(acts[workers[w].act])],
                                    Refresh(AddResults(contexts, names), current_key)),
                         workers[w].complete_cb[1]) :
               ChainEnds("WorkerDone", workers[w].act, RemoveAt(workers, w), o)
    /\ UNCHANGED <<actions, current_key, file, project_config_fpath, registry>>

\* the worker's fn raised: no result signal, completed is not called
WorkerFail(w) ==
    /\ Tick
    /\ workers' = RemoveAt(workers, w)
    /\ acts' = [acts EXCEPT ![workers[w].act].status = RaisedStatus(acts[workers[w].act])]
    /\ res' = Executed(Raised("WorkerFail", workers[w].act, "run"), CallsOfRaise)
    /\ UNCHANGED <<nodes, actions, contexts, current_key, file, project_config_fpath, registry>>

(***************************************************************************)
(* The editor's Apply on an action.                                        *)
(***************************************************************************)
\* what a user changes in the construct config the editor shows: the keys
\* of `set` get new values, the keys of `del` are deleted
Edit(set, del) == [set |-> set, del |-> del]

Edits(cls) ==
    CASE cls = LoadAction ->
           { Edit([fpaths |-> PyList(<<PyStr(<<"f", ".", "t", "d", "m", "s">>)>>)], {}) }
      [] OTHER ->
           { Edit([channels |-> PyList(<<NameY, NameZ, NameX>>)], {}),
             Edit([channels |-> PyNone], {}),
             Edit(EmptyDict, {"channels"}) }

EditedConfig(base, e) ==
    [key \in ((DOMAIN base) \cup (DOMAIN e.set)) \ e.del |->
        IF key \in DOMAIN e.set THEN e.set[key] ELSE base[key]]

\* ActionListWidget.action_apply_node_config: a click on the item opens the
\* action's construct config (seeding it), the user edits and applies or fires
ApplyActionConfig(a, e, fire) ==
    /\ Tick
    /\ LET shown == SeedConstructConfig(acts[a])
           config == EditedConfig(ActionGetConstructConfig(shown), e)
           A == [acts EXCEPT ![a] = ActionApplyConstructConfig(shown, config)]
       IN IF fire
          THEN RunActionOn("FireActionConfig", A, a)
          ELSE /\ acts' = A
               /\ res' = Returned("ApplyActionConfig", a)
               /\ UNCHANGED <<nodes, actions, contexts, current_key, workers, file, project_config_fpath, registry>>

(***************************************************************************)
(* Save and load.                                                          *)
(***************************************************************************)
\* json.dump then json.load of a value: a tuple comes back as a list
RECURSIVE Json(_)
Json(v) ==
    IF v.k \in {"list", "tuple"}
    THEN PyList([i \in 1..Len(v.v) |-> Json(v.v[i])])
    ELSE IF v.k = "dict"
    THEN PyDict([i \in 1..Len(v.v) |-> [key |-> v.v[i].key, val |-> Json(v.v[i].val)]])
    ELSE v

JsonConfig(cfg) == [key \in DOMAIN cfg |-> Json(cfg[key])]

\* the save config as json.load reads it back from the file
JsonFile(config) ==
    [actions |-> [i \in 1..Len(config.actions) |->
                    [config.actions[i] EXCEPT !.cfg = JsonConfig(@)]],
     global_nodes |-> [i \in 1..Len(config.global_nodes) |->
                         [config.global_nodes[i] EXCEPT !.cfg = JsonConfig(@)]]]

\* get_save_config seeds the construct config of every action it walks
SeededActs ==
    [i \in DOMAIN acts |->
        IF \E j \in 1..Len(actions) : actions[j] = i
        THEN SeedConstructConfig(acts[i]) ELSE acts[i]]

\* Container.GetClass(cls_path) raises for a class tag no module defines
GetClassRaises(cls_path) == cls_path \notin DataClasses \cup AllActionClasses

\* parse_save_config raises at the first record without a class or uuid
\* key (KeyError) or whose class is not found
ParseRaises(config) ==
    LET raises(r) == \/ {"class", "uuid"} \ DOMAIN r # {}
                     \/ GetClassRaises(r.class)
    IN \/ \E i \in 1..Len(config.global_nodes) : raises(config.global_nodes[i])
       \/ \E i \in 1..Len(config.actions) : raises(config.actions[i])

\* the dict passed to parse_save_config as a parse that returns leaves it:
\* del data_config['_class_'], del data_config['_uuid_'], and for the
\* action records kept del act_config['_context_'] as well
ConfigAfterParse(config) ==
    LET heap == LoadedNodes(config.global_nodes)
        without(r, keys) == [k \in (DOMAIN r) \ keys |-> r[k]]
        act(r) == IF r.context # NoContext /\ KeepsRecord(heap, r)
                  THEN [without(r, {"class", "uuid"}) EXCEPT !.context = NoContext]
                  ELSE without(r, {"class", "uuid"})
    IN [actions |-> [i \in 1..Len(config.actions) |-> act(config.actions[i])],
        global_nodes |-> [i \in 1..Len(config.global_nodes) |->
                             without(config.global_nodes[i], {"class", "uuid"})]]

\* action_save: get_config() is dumped to project_config_fpath; without
\* one, action_saveas first asks for the path (the user picks the first
\* path) and remembers it
SaveProject ==
    /\ Tick
    /\ acts' = SeededActs
    /\ contexts' = Touch(contexts, GCK)
    /\ LET config_fpath == IF project_config_fpath = NoPath
                           THEN 1
                           ELSE project_config_fpath[1]
           config == JsonFile(ContainerGetSaveConfig(Container))
       IN /\ project_config_fpath' = <<config_fpath>>
          /\ file' = IF config_fpath \in DOMAIN file
                     THEN [file EXCEPT ![config_fpath] = config]
                     ELSE Append(file, config)
    /\ res' = Returned("SaveProject", 0)
    /\ UNCHANGED <<nodes, actions, current_key, workers, registry>>

\* action_load_project / apply_config: the container parsed from the file
\* replaces the held one and the widgets refresh.  A worker in flight keeps
\* the former container: its result no longer reaches the held one.
LoadProject(fpath) ==
    /\ Tick
    /\ fpath \in DOMAIN file
    /\ project_config_fpath' = <<fpath>>
    /\ IF ParseRaises(file[fpath])
       THEN \* the exception leaves apply_config before self.container is set
            /\ res' = Raised("LoadProject", 0, "parse")
            /\ UNCHANGED <<nodes, acts, actions, contexts, current_key, workers>>
       ELSE /\ LET c == ParseSaveConfig(file[fpath]) IN
               /\ nodes' = c.nodes
               /\ acts' = c.acts
               /\ actions' = c.actions
               /\ contexts' = Refresh(c.contexts, c.current_key)
               /\ current_key' = c.current_key
            /\ workers' = <<>>
            /\ res' = Returned("LoadProject", 0)
    /\ UNCHANGED <<file, registry>>

Next ==
    \/ \E n_t \in GlobalDataTypes : CreateNode(n_t)
    \/ \E node \in GlobalItems \cup LocalItems, new_name \in UserNames :
          ApplyNodeConfig(node, new_name)
    \/ \E key_object \in GlobalItems : Activate(key_object)
    \/ \E key_object \in GlobalItems : DeleteNode(key_object)
    \/ \E a_t \in ActionClasses,
          index \in {0} \cup {IndexOf(actions, a) : a \in ActionItems} :
          CreateAction(a_t, index)
    \/ \E a \in ActionItems : DeleteAction(a)
    \/ \E oa \in ActionItems, a \in ActionItems : oa # a /\ MoveAfter(oa, a)
    \/ \E oa \in ActionItems, key_object \in GlobalItems :
          /\ current_key # GCK
          /\ nodes[key_object].cls = nodes[current_key].cls
          /\ CopyAction(oa, key_object)
    \/ \E a \in ActionItems, fire \in BOOLEAN :
          \E e \in Edits(acts[a].cls) : ApplyActionConfig(a, e, fire)
    \/ \E a \in ActionItems : RunAction(a)
    \/ RunAllActions
    \/ \E w \in 1..Len(workers) :
          \E names \in WorkerResults(workers[w].params) : WorkerDone(w, names)
    \/ \E w \in 1..Len(workers) : WorkerFail(w)
    \/ SaveProject
    \/ \E fpath \in DOMAIN file : LoadProject(fpath)

Spec == Init /\ [][Next]_vars

(***************************************************************************)
(* Loading a project file into a fresh application.                        *)
(***************************************************************************)
MaxFileNodes == 2     \* global-node records of a project file
MaxFileActions == 2   \* action records of a project file

SeqsUpTo(S, n) == UNION {[1..m -> S] : m \in 0..n}

\* the records of a file: two node uuids and two action uuids, so that a
\* uuid can repeat, and a context uuid that no node record carries
FileNodeRecords ==
    [uuid : {NodeUuid(1), NodeUuid(2)}, class : {SimpleDefinition},
     cfg : {[name |-> NameX], [name |-> NameY]}]

FileActionRecords ==
    [uuid : {ActUuid(1), ActUuid(2)}, class : {TruncAction},
     context : {NoContext, NodeUuid(1), NodeUuid(2), NodeUuid(3)},
     cfg : {[name |-> CAPTION(TruncAction), channels |-> PyList(<<NameX>>),
             duration |-> PyList(<<PyInt(0), PyInt(0)>>)]}]

InitLoad ==
    /\ nodes = <<>>
    /\ acts = <<>>
    /\ actions = <<>>
    /\ contexts = (GCK :> EmptyContext)
    /\ current_key = GCK
    /\ workers = <<>>
    /\ file \in {<<f>> : f \in [actions : SeqsUpTo(FileActionRecords, MaxFileActions),
                                 global_nodes : SeqsUpTo(FileNodeRecords, MaxFileNodes)]}
    /\ res = Returned("init", 0)
    /\ project_config_fpath = NoPath
    /\ registry = EmptyRegistry
    /\ steps = 0

NextLoad == \E fpath \in DOMAIN file : LoadProject(fpath)

SpecLoad == InitLoad /\ [][NextLoad]_vars

(***************************************************************************)
(* Properties.                                                             *)
(***************************************************************************)
Names == {NewNodeName, DefaultName, NameX, NameY, NameZ, NameEmpty}

\* the nodes a context lists under (node_type, name)
Stored(ctx, node_type, name) ==
    {NodeIter(ctx)[i].node : i \in {j \in 1..Len(NodeIter(ctx)) :
                                      /\ NodeIter(ctx)[j].type = node_type
                                      /\ NodeIter(ctx)[j].name = name}}

\* the node a name of a type stands for: the current context's, else Global's
ScopeNode(name, node_type) ==
    IF Stored(CurrentContext, node_type, name) # {}
    THEN CHOOSE n \in Stored(CurrentContext, node_type, name) : TRUE
    ELSE IF Stored(GlobalContext, node_type, name) # {}
    THEN CHOOSE n \in Stored(GlobalContext, node_type, name) : TRUE
    ELSE NoNode

\* what a save/load round trip has to keep of a container c
GlobalNodeSet(c) ==
    LET g == NodeIter(ContextOf(c.contexts, GCK)) IN
    {[cls |-> c.nodes[g[i].node].cls, d |-> c.nodes[g[i].node].d] : i \in 1..Len(g)}

ParamValues(a) == [key \in (DOMAIN a.cc) \ {"name", "out_name"} |-> a.cc[key]]

ActionList(c) ==
    [i \in 1..Len(c.actions) |->
        LET a == c.acts[c.actions[i]] IN
        [cls |-> a.cls, name |-> a.name, params |-> ParamValues(a),
         context |-> IF a.context_key = GCK THEN NoContext
                     ELSE c.nodes[a.context_key].uuid]]

\* C1: parse_save_config(get_save_config(c)) has the action list of c (types,
\* names, parameter values, context bindings, order) and the Global node set
\* of c (types, names, field values), for every reachable container c.
C1_RoundTrip ==
    LET c == [Container EXCEPT !.acts = SeededActs]
        L == ParseSaveConfig(ContainerGetSaveConfig(c))
    IN /\ ActionList(L) = ActionList(c)
       /\ GlobalNodeSet(L) = GlobalNodeSet(c)

\* C2: every action of container.actions is bound to GCK or to a node that
\* the Global context holds.
C2_ContextKeyInGlobal ==
    \A i \in 1..Len(actions) :
        \/ acts[actions[i]].context_key = GCK
        \/ acts[actions[i]].context_key \in GlobalItems

\* C3: deleting a node M the Global context holds leaves M out of the Global
\* context, leaves no context keyed by M, and leaves container.actions as
\* it was without the actions bound to M.
C3_CascadeDelete ==
    [][\A M \in GlobalItems :
          DeleteNode(M) =>
              /\ M \notin GlobalItems'
              /\ M \notin DOMAIN contexts'
              /\ \A i \in 1..Len(actions') : acts'[actions'[i]].context_key # M
              /\ actions' = SelectSeq(actions, LAMBDA a : acts[a].context_key # M)]_vars

\* a context lists each type once and each name once per type
Unique(ctx) ==
    /\ \A i, j \in 1..Len(ctx) : ctx[i].type = ctx[j].type => i = j
    /\ \A b \in 1..Len(ctx) :
          \A i, j \in 1..Len(ctx[b].items) :
              ctx[b].items[i].name = ctx[b].items[j].name => i = j

Entries(ctx) == {NodeIter(ctx)[i] : i \in 1..Len(NodeIter(ctx))}

\* C4: every context stores at most one node per (type, name); add_node of a
\* further node stores it as the only node of its (type, name) and leaves
\* the entries of every other (type, name) as they were.
C4_Uniqueness ==
    \A key \in DOMAIN contexts :
        /\ Unique(contexts[key])
        /\ \A node_type \in DataClasses, name \in Names :
              LET node == Len(nodes) + 1
                  after == AddNode(contexts[key], node_type, name, node)
                  same(e) == e.type = node_type /\ e.name = name
              IN /\ Unique(after)
                 /\ {e \in Entries(after) : same(e)}
                      = {[type |-> node_type, name |-> name, node |-> node]}
                 /\ {e \in Entries(after) : ~same(e)}
                      = {e \in Entries(contexts[key]) : ~same(e)}

\* a second node of the type and name of the first took its place
C4_Witness ==
    /\ steps = 2 /\ res.op = "CreateNode" /\ res.obj = 2
    /\ nodes[1].cls = nodes[2].cls /\ nodes[1].d.name = nodes[2].d.name
    /\ GlobalItems = {2}

\* C5: get_node_of_type(name, T) is the current context's node of (T, name)
\* when it has one, else Global's node of (T, name) when the current context
\* is not the Global one, else the not-found value.
C5_FallbackLookup ==
    \A node_type \in DataClasses, name \in Names :
        LET r == ContainerGetNodeOfType(contexts, current_key, name, node_type)
            cur == Stored(CurrentContext, node_type, name)
            glob == Stored(GlobalContext, node_type, name)
        IN /\ cur # {} => r \in cur
           /\ (cur = {} /\ current_key # GCK /\ glob # {}) => r \in glob
           /\ (cur = {} /\ (current_key = GCK \/ glob = {})) => r = NoNode

\* a local context is active and lacks a TimeData name that Global holds:
\* the lookup falls back to Global's node
C5_Witness ==
    /\ current_key # GCK
    /\ \E name \in Names :
          /\ Stored(CurrentContext, TimeData, name) = {}
          /\ Stored(GlobalContext, TimeData, name) # {}
          /\ ContainerGetNodeOfType(contexts, current_key, name, TimeData)
               \in Stored(GlobalContext, TimeData, name)

IsNameList(v) == v.k = "list" /\ \A i \in 1..Len(v.v) : v.v[i].k = "str"

IsNodeListParam(p) ==
    p.ann.k = "list" /\ Len(p.ann.args) = 1 /\ p.ann.args[1].k = "data"

\* the nodes of the names that are in scope, in the order of the names
NodesInScope(names, node_type) ==
    LET found == SelectSeq(names, LAMBDA n : ScopeNode(n, node_type) # NoNode)
    IN PyList([i \in 1..Len(found) |-> PyNode(ScopeNode(found[i], node_type))])

\* C6: for a parameter declared list[DataNode type] whose stored value is a
\* list of names, prepare_params_for_action raises nothing and the parameter
\* is the list of the nodes of the names in scope, in the order of the names.
C6_TolerantList ==
    \A i \in 1..Len(actions) :
        LET a == acts[actions[i]]
            sig == SIGNATURE(a.cls)
            r == PrepareParamsForAction(contexts, current_key, sig, a.cc)
        IN \A j \in 1..Len(sig) :
              (/\ IsNodeListParam(sig[j])
               /\ sig[j].key \in DOMAIN a.cc
               /\ IsNameList(a.cc[sig[j].key]))
              => /\ r.ok
                 /\ r.val[sig[j].key]
                      = NodesInScope(a.cc[sig[j].key].v, sig[j].ann.args[1].name)

\* an action ran on a stored list of three names of which the first and
\* the last were in scope
C6_Witness ==
    /\ res.op = "FireActionConfig" /\ res.raised = ""
    /\ acts[res.obj].cls = TruncAction /\ acts[res.obj].status = COMPLETE
    /\ IsNameList(acts[res.obj].cc["channels"])
    /\ Len(acts[res.obj].cc["channels"].v) = 3
    /\ ScopeNode(acts[res.obj].cc["channels"].v[1], TimeData) # NoNode
    /\ ScopeNode(acts[res.obj].cc["channels"].v[2], TimeData) = NoNode
    /\ ScopeNode(acts[res.obj].cc["channels"].v[3], TimeData) # NoNode

\* C7: a parameter without default whose stored value is absent or None makes
\* prepare_params_for_action raise the missing-parameter error naming it.
C7_MissingParameter ==
    \A i \in 1..Len(actions) :
        LET a == acts[actions[i]]
            sig == SIGNATURE(a.cls)
            r == PrepareParamsForAction(contexts, current_key, sig, a.cc)
        IN \A j \in 1..Len(sig) :
              (/\ sig[j].default.k = "empty"
               /\ (sig[j].key \notin DOMAIN a.cc \/ a.cc[sig[j].key].k = "none"))
              => (~r.ok /\ r.err = "Exception" /\ r.arg = sig[j].key)

\* C8: when a Global node named X is renamed to Y and the container is then
\* saved and loaded, the loaded Global context has a node of the type named
\* Y and none named X, and each action bound to the node is loaded bound to
\* the loaded node of the same uuid.
C8_RenameSurvives ==
    [][\A node \in GlobalItems, new_name \in UserNames :
          (/\ ApplyNodeConfig(node, new_name)
           /\ Truthy(new_name) /\ new_name # nodes[node].d.name
           /\ node \in Stored(GlobalContext, nodes[node].cls, nodes[node].d.name))
          => LET L == ParseSaveConfig(JsonFile(ContainerGetSaveConfig(Container')))
                 lg == ContextOf(L.contexts, GCK)
             IN /\ \E n \in Stored(lg, nodes[node].cls, new_name) :
                      L.nodes[n].d.name = new_name
                /\ Stored(lg, nodes[node].cls, nodes[node].d.name) = {}
                /\ \A i \in 1..Len(actions') :
                      acts'[actions'[i]].context_key = node
                      => \E j \in 1..Len(L.actions) :
                            /\ L.acts[L.actions[j]].uuid = acts'[actions'[i]].uuid
                            /\ L.acts[L.actions[j]].context_key # GCK
                            /\ L.nodes[L.acts[L.actions[j]].context_key].uuid
                                 = nodes[node].uuid]_vars

\* C9: the loaded action list is the sequence of the file's action records,
\* in record order, without the records whose context is the uuid of no
\* global-node record; nothing is raised; a kept action is bound to the
\* loaded node of the context uuid, or to GCK when the record has no context.
C9_DanglingReference ==
    res.op = "LoadProject" =>
        LET cfg == file[1]
            ids == {cfg.global_nodes[i].uuid : i \in 1..Len(cfg.global_nodes)}
            kept == SelectSeq(cfg.actions,
                              LAMBDA r : r.context = NoContext \/ r.context \in ids)
        IN /\ res.raised = ""
           /\ Len(actions) = Len(kept)
           /\ \A i \in 1..Len(actions) :
                 LET a == acts[actions[i]] IN
                 /\ a.uuid = kept[i].uuid
                 /\ a.cls = kept[i].class
                 /\ IF kept[i].context = NoContext
                    THEN a.context_key = GCK
                    ELSE /\ a.context_key \in 1..Len(nodes)
                         /\ nodes[a.context_key].uuid = kept[i].context

\* of two action records the first was dropped, the second loaded bound to
\* a node
C9_Witness ==
    /\ res.op = "LoadProject"
    /\ Len(file[1].actions) = 2 /\ Len(actions) = 1
    /\ acts[actions[1]].uuid = file[1].actions[2].uuid
    /\ acts[actions[1]].uuid # file[1].actions[1].uuid
    /\ acts[actions[1]].context_key # GCK

\* C10: an execution that raises leaves the action FAILED, one that succeeds
\* leaves it COMPLETE.
C10_StatusAfterRun ==
    /\ res.raised = "run" => acts[res.obj].status = FAILED
    /\ (\/ res.op = "WorkerDone"
        \/ /\ res.op \in {"RunAction", "FireActionConfig"}
           /\ res.raised = ""
           /\ ~IsPAB(acts[res.obj].cls))
       => acts[res.obj].status = COMPLETE

\* C11: whenever a handler has called the body of an action, it has called
\* pre_run before the body and post_run after it, also when the body raised.
C11_HooksBracket ==
    (\E i \in 1..Len(res.calls) : res.calls[i] = "__call__")
       => res.calls = <<"pre_run", "__call__", "post_run">>

\* the status changes the life cycle allows
StatusStep(s, t) ==
    \/ s = t
    \/ s = INIT /\ t = CONFIGURED
    \/ s = CONFIGURED /\ t \in {COMPLETE, FAILED}
    \/ s \in {COMPLETE, FAILED} /\ t = CONFIGURED

\* C12: the status of an action object changes only along Init -> Configured,
\* Configured -> Complete, Configured -> Failed, Complete -> Configured and
\* Failed -> Configured, and the editor's Apply leaves the action Configured
\* whatever its status was.
\* (a fired Apply first applies, which leaves Configured, then runs.)
C12_StatusMachine ==
    [][/\ res'.op # "LoadProject" =>
            \A a \in (DOMAIN acts) \cap (DOMAIN acts') :
                StatusStep(IF res'.op = "FireActionConfig" /\ res'.obj = a
                           THEN CONFIGURED ELSE acts[a].status,
                           acts'[a].status)
       /\ res'.op = "ApplyActionConfig" => acts'[res'.obj].status = CONFIGURED]_vars

\* C13: get_construct_config leaves the node as it is: the action that
\* cb_creation constructs and hands to the editor, which reads its construct
\* config, is afterwards still as the constructor made it (empty stored
\* parameters, caption as name, no output name, status INIT), and a second
\* call on any action returns what the first returned.
C13_GetConfigPure ==
    [][/\ res'.op = "CreateAction" =>
            acts'[res'.obj] = NewActionNode(acts'[res'.obj].cls, current_key,
                                            ActUuid(res'.obj))
       /\ \A a \in DOMAIN acts' :
            ActionGetConstructConfig(SeedConstructConfig(acts'[a]))
               = ActionGetConstructConfig(acts'[a])]_vars


(***************************************************************************)
(* The construct-config operations called on single objects: the nodes and *)
(* actions are constructed, read with get_construct_config, written with   *)
(* apply_construct_config from a document of the editor, and an action's   *)
(* parameters are resolved against an empty container.                     *)
(***************************************************************************)
MaxObjects == 1    \* objects constructed in a run of SpecConfig

\* yaml.load of the editor's text: a mapping, or None for an empty document
Doc(cfg) == [k |-> "dict", cfg |-> cfg]
NoDoc == [k |-> "none", cfg |-> EmptyDict]

\* cfg with key set to val
WithKey(cfg, key, val) ==
    [x \in (DOMAIN cfg) \cup {key} |-> IF x = key THEN val ELSE cfg[x]]

\* documents a user can apply to a data node: the text as shown, a new
\* name, a placeholder as name, a mapping without the node's keys, unknown
\* keys, placeholders at depth, the key _uuid, an empty document
DataDocs(node) ==
    LET placeholder == PyStr(<<"<","f","l","o","a","t",">">>) IN
    { NoDoc,
      Doc([name |-> NameX]),
      Doc([name |-> NameY]),
      Doc([_uuid |-> PyStr(<<"u", 0>>)]),
      Doc([nope |-> PyInt(1), dt |-> PyInt(2),
           comment |-> PyDict(<<[key |-> <<"a">>, val |-> placeholder]>>),
           y_unit |-> PyList(<<NameX, PyList(<<placeholder>>)>>)]) }
    \cup (IF DataGetConstructConfigRaises(node) THEN {}
          ELSE {Doc(DataGetConstructConfig(node))})

\* the keys of the tuple parameters of an action class
TupleKeys(cls) ==
    {SIGNATURE(cls)[i].key : i \in {j \in 1..Len(SIGNATURE(cls)) :
                                        SIGNATURE(cls)[j].ann.k = "tuple"}}

\* documents a user can apply to an action: the text as shown, a new name,
\* a tuple parameter with one or three elements, an empty mapping, an empty
\* document
ActionDocs(a) ==
    LET shown == ActionGetConstructConfig(a) IN
    { NoDoc, Doc(EmptyDict), Doc(shown), Doc(WithKey(shown, "name", NameX)) }
    \cup { Doc(WithKey(shown, key, PyList(<<PyInt(1)>>))) : key \in TupleKeys(a.cls) }
    \cup { Doc(WithKey(shown, key, PyList(<<PyInt(1), PyInt(2), PyInt(3)>>))) :
              key \in TupleKeys(a.cls) }

InitConfig ==
    /\ nodes = <<>>
    /\ acts = <<>>
    /\ actions = <<>>
    /\ contexts = (GCK :> EmptyContext)
    /\ current_key = GCK
    /\ workers = <<>>
    /\ file = NoFile
    /\ res = Returned("init", 0)
    /\ project_config_fpath = NoPath
    /\ registry = EmptyRegistry
    /\ steps = 0

\* node_type(name="[New node]")
ConstructData(cls) ==
    /\ Tick
    /\ Len(nodes) + Len(acts) < MaxObjects
    /\ nodes' = Append(nodes, NewDataNode(cls, NewNodeName, NodeUuid(Len(nodes) + 1)))
    /\ res' = Returned("ConstructData", Len(nodes) + 1)
    /\ UNCHANGED <<acts, actions, contexts, current_key, workers, file, project_config_fpath, registry>>

\* act_type(context_key=GCK)
ConstructAction(cls) ==
    /\ Tick
    /\ Len(nodes) + Len(acts) < MaxObjects
    /\ acts' = Append(acts, NewActionNode(cls, GCK, ActUuid(Len(acts) + 1)))
    /\ res' = Returned("ConstructAction", Len(acts) + 1)
    /\ UNCHANGED <<nodes, actions, contexts, current_key, workers, file, project_config_fpath, registry>>

\* node.get_construct_config() on a data node
DataGet(node) ==
    /\ Tick
    /\ res' = IF DataGetConstructConfigRaises(nodes[node])
              THEN Raised("DataGet", node, "get") ELSE Returned("DataGet", node)
    /\ UNCHANGED <<nodes, acts, actions, contexts, current_key, workers, file, project_config_fpath, registry>>

\* action.get_construct_config()
ActionGet(a) ==
    /\ Tick
    /\ acts' = [acts EXCEPT ![a] = SeedConstructConfig(@)]
    /\ res' = Returned("ActionGet", a)
    /\ UNCHANGED <<nodes, actions, contexts, current_key, workers, file, project_config_fpath, registry>>

\* node.apply_construct_config(doc): construct_config.items() needs a mapping
DataApply(node, doc) ==
    /\ Tick
    /\ IF doc.k # "dict"
       THEN /\ nodes' = nodes
            /\ res' = Raised("DataApply", node, "apply")
       ELSE /\ nodes' = [nodes EXCEPT ![node] = DataApplyConstructConfig(@, doc.cfg)]
            /\ res' = Returned("DataApply", node)
    /\ UNCHANGED <<acts, actions, contexts, current_key, workers, file, project_config_fpath, registry>>

\* action.apply_construct_config(doc): `"name" in construct_config` needs a
\* container
ActionApply(a, doc) ==
    /\ Tick
    /\ IF doc.k # "dict"
       THEN /\ acts' = acts
            /\ res' = Raised("ActionApply", a, "apply")
       ELSE /\ acts' = [acts EXCEPT ![a] = ActionApplyConstructConfig(@, doc.cfg)]
            /\ res' = Returned("ActionApply", a)
    /\ UNCHANGED <<nodes, actions, contexts, current_key, workers, file, project_config_fpath, registry>>

\* container.prepare_params_for_action(action._SIGNATURE, action._construct_config)
\* for an action that is not a sequence
Prepare(a) ==
    /\ Tick
    /\ ~IsSAB(acts[a].cls)
    /\ res' = IF PrepareParamsForAction(contexts, current_key,
                                        SIGNATURE(acts[a].cls), acts[a].cc).ok
              THEN Returned("Prepare", a) ELSE Raised("Prepare", a, "prepare")
    /\ UNCHANGED <<nodes, acts, actions, contexts, current_key, workers, file, project_config_fpath, registry>>

NextConfig ==
    \/ \E cls \in DataClasses : ConstructData(cls)
    \/ \E cls \in AllActionClasses : ConstructAction(cls)
    \/ \E node \in DOMAIN nodes : DataGet(node)
    \/ \E a \in DOMAIN acts : ActionGet(a)
    \/ \E node \in DOMAIN nodes : \E doc \in DataDocs(nodes[node]) : DataApply(node, doc)
    \/ \E a \in DOMAIN acts : \E doc \in ActionDocs(acts[a]) : ActionApply(a, doc)
    \/ \E a \in DOMAIN acts : Prepare(a)

SpecConfig == InitConfig /\ [][NextConfig]_vars


(***************************************************************************)
(* Properties of the construct-config operations.                          *)
(***************************************************************************)
\* node.apply_construct_config(node.get_construct_config()) on a data node
\* leaves it as it was and a following get_construct_config returns the same
DataReapplyIsNoOp(n) ==
    IF DataGetConstructConfigRaises(n) THEN FALSE
    ELSE LET m == DataApplyConstructConfig(n, DataGetConstructConfig(n)) IN
         /\ m = n
         /\ IF DataGetConstructConfigRaises(m) THEN FALSE
            ELSE DataGetConstructConfig(m) = DataGetConstructConfig(n)

\* the same on an action: name, output name and parameter values stay
ActionReapplyIsNoOp(a) ==
    LET shown == ActionGetConstructConfig(a)
        b == ActionApplyConstructConfig(SeedConstructConfig(a), shown)
    IN /\ b.name = a.name
       /\ b.out_name = a.out_name
       /\ \A key \in DOMAIN a.cc : key \in DOMAIN b.cc /\ b.cc[key] = a.cc[key]
       /\ ActionGetConstructConfig(b) = shown

\* C14: for a node or action that has had a construct config applied,
\* applying its own get_construct_config() back changes neither its name nor
\* its fields (values and kinds) nor its parameter values, and a following
\* get_construct_config returns what the first returned.
C14_ReapplyOwnConfig ==
    /\ (res.op = "DataApply" /\ res.raised = "") => DataReapplyIsNoOp(nodes[res.obj])
    /\ (res.op = "ActionApply" /\ res.raised = "") => ActionReapplyIsNoOp(acts[res.obj])


\* C15: no operation changes the uuid of an existing node or action object:
\* not get_construct_config, not apply_construct_config with any mapping,
\* not parameter resolution.
C15_UuidImmutable ==
    [][/\ \A node \in DOMAIN nodes : nodes'[node].uuid = nodes[node].uuid
       /\ \A a \in DOMAIN acts : acts'[a].uuid = acts[a].uuid]_vars


\* a value is plain data: no string of the form "<...>" in it at any depth
RECURSIVE Plain(_)
Plain(v) ==
    CASE v.k = "str" -> ~(Len(v.v) >= 2 /\ Head(v.v) = "<" /\ v.v[Len(v.v)] = ">")
      [] v.k \in {"list", "tuple"} -> \A i \in 1..Len(v.v) : Plain(v.v[i])
      [] v.k = "dict" -> \A i \in 1..Len(v.v) : Plain(v.v[i].val)
      [] OTHER -> TRUE


\* C16: DataNode.apply_construct_config(cfg) overwrites exactly the fields
\* whose key is in cfg and whose value in cfg is plain data; a key of cfg
\* that is no field of the node creates none, and every other field keeps
\* its value.  Checked for every reachable node and every document.
C16_ApplyFrame ==
    \A node \in DOMAIN nodes : \A doc \in DataDocs(nodes[node]) :
        doc.k = "dict" =>
           LET n == nodes[node]
               m == DataApplyConstructConfig(n, doc.cfg)
           IN /\ m.cls = n.cls
              /\ DOMAIN m.d = DOMAIN n.d
              /\ \A f \in DOMAIN n.d :
                    m.d[f] = IF f \in DOMAIN doc.cfg /\ Plain(doc.cfg[f])
                             THEN doc.cfg[f] ELSE n.d[f]

\* a TimeData node after the document {nope: 1, dt: 2, comment: {a: "<float>"},
\* y_unit: ["X", ["<float>"]]} was applied: dt overwritten, the others kept
C16_Witness ==
    /\ res.op = "DataApply" /\ res.raised = ""
    /\ nodes[res.obj].cls = TimeData
    /\ nodes[res.obj].d.dt = PyInt(2)
    /\ nodes[res.obj].d.comment = PyStr(<<>>)
    /\ nodes[res.obj].d.y_unit = PyStr(<<"-">>)
    /\ DOMAIN nodes[res.obj].d = {"name", "y", "dt", "y_unit", "comment"}


\* C17: apply_construct_config returns normally on a data node and on an
\* action for every document the editor can deliver, the empty document
\* (no mapping at all) and mappings with missing or odd keys included.
C17_ApplyTotal ==
    res.op \in {"DataApply", "ActionApply"} => res.raised = ""


\* the enum-default parameters of signature are stored by name in the dict
\* value config
EnumsByName(signature, config) ==
    \A i \in 1..Len(signature) :
        signature[i].default.k = "enum" =>
           \E j \in 1..Len(config.v) :
              /\ config.v[j].key = signature[i].key
              /\ config.v[j].val = PyStr(signature[i].default.member)

\* C18: in the seeded construct config of an action that no config was
\* applied to, every parameter whose default is an enum member holds the
\* member's name as a string: in the mapping of a simple action and in the
\* mapping of every sub-action of a sequence action.
C18_EnumDefaultsByName ==
    \A a \in DOMAIN acts :
        (acts[a].status = INIT /\ DOMAIN acts[a].cc # {}) =>
           IF IsSAB(acts[a].cls)
           THEN \A sub \in DOMAIN acts[a].cc :
                   EnumsByName(SIGNATURE(sub), acts[a].cc[sub])
           ELSE \A i \in 1..Len(SIGNATURE(acts[a].cls)) :
                   LET p == SIGNATURE(acts[a].cls)[i] IN
                   p.default.k = "enum" => acts[a].cc[p.key] = PyStr(p.default.member)


\* C19: when prepare_params_for_action returns for an action, the value of
\* each parameter annotated tuple[T1, ..., Tn] whose stored value is a
\* sequence is a sequence of exactly n elements: a stored value with fewer
\* or more elements does not come out with another length.
C19_TupleArity ==
    (res.op = "Prepare" /\ res.raised = "") =>
       LET a == acts[res.obj]
           sig == SIGNATURE(a.cls)
           r == PrepareParamsForAction(contexts, current_key, sig, a.cc)
       IN \A i \in 1..Len(sig) :
             (sig[i].ann.k = "tuple" /\ IsIterable(StoredValue(a.cc, sig[i]))) =>
                /\ Len(r.val[sig[i].key].v) = Len(sig[i].ann.args)
                /\ Len(IterOf(StoredValue(a.cc, sig[i]))) = Len(sig[i].ann.args)


(***************************************************************************)
(* The application with a project file chosen: a file saved earlier with a *)
(* Global TimeData node X and a TruncAction on the channels <Y>, Z and X.  *)
(***************************************************************************)
OpenedFile ==
    [actions |-> << [uuid |-> ActUuid(1), class |-> TruncAction, context |-> NoContext,
                     cfg |-> [name |-> CAPTION(TruncAction),
                              channels |-> PyList(<<NameY, NameZ, NameX>>),
                              duration |-> PyList(<<PyInt(0), PyInt(0)>>)]] >>,
     global_nodes |-> << DataGetSaveConfig(NewDataNode(TimeData, NameX, NodeUuid(1))) >>]

InitOpen ==
    /\ nodes = <<>>
    /\ acts = <<>>
    /\ actions = <<>>
    /\ contexts = (GCK :> EmptyContext)
    /\ current_key = GCK
    /\ workers = <<>>
    /\ file = <<OpenedFile>>
    /\ res = Returned("init", 0)
    /\ project_config_fpath = NoPath
    /\ registry = EmptyRegistry
    /\ steps = 0

SpecOpen == InitOpen /\ [][Next]_vars


\* C20: every execution of an action resolves the stored names against the
\* container as it is at that execution: when a TruncAction whose channels
\* are a list of names runs and returns, its results are one new node for
\* each name that is in scope at that moment (in the current context, else
\* in Global), in the order of the names, whatever an earlier execution of
\* the same stored configuration resolved.
C20_FreshResolution ==
    [][(/\ res'.op \in {"RunAction", "FireActionConfig"}
        /\ res'.raised = ""
        /\ acts'[res'.obj].cls = TruncAction
        /\ "channels" \in DOMAIN acts'[res'.obj].cc
        /\ IsNameList(acts'[res'.obj].cc["channels"]))
       => LET found == NodesInScope(acts'[res'.obj].cc["channels"].v, TimeData).v IN
          /\ Len(nodes') = Len(nodes) + Len(found)
          /\ \A i \in 1..Len(found) :
                nodes'[Len(nodes) + i].d.name = nodes[found[i].v].d.name]_vars

\* the stored channels <Y>, Z, X were resolved twice: the first execution
\* found X (the loaded node 1) and made node 2, which was then renamed to
\* <Y>; the second execution found <Y> instead and made node 3
C20_Witness ==
    /\ res.op = "RunAction" /\ res.raised = ""
    /\ acts[res.obj].cls = TruncAction
    /\ acts[res.obj].cc["channels"] = PyList(<<NameY, NameZ, NameX>>)
    /\ Len(nodes) = 3
    /\ nodes[1].d.name = NameX
    /\ nodes[2].d.name = NameY
    /\ nodes[3].d.name = NameY
    /\ ScopeNode(NameX, TimeData) = NoNode


(***************************************************************************)
(* Properties of the contexts, the run-all, workers and the project file.  *)
(***************************************************************************)
\* ctx maps (node_type, name) to exactly the nodes of set
MapsTo(ctx, node_type, name, set) == Stored(ctx, node_type, name) = set

\* C21: rename_node_to(node, new_name) on a context that holds node under
\* (type, node.name) leaves (type, new_name) mapped to node, (type, old name)
\* absent when the names differ, node.name = new_name, and every other key
\* of the context, every other context and the stored parameters of every
\* action as they were.  The context part is checked, wherever the editor
\* applies a node configuration, on every entry of every context with every
\* name, the rest on the editor's renames.
C21_RenameFrame ==
    [][/\ res'.op = "ApplyNodeConfig" =>
          \A key \in DOMAIN contexts :
             \A e \in Entries(contexts[key]) : \A new_name \in Names :
                LET c == RenameNodeTo(contexts[key], e.type, e.name, new_name, e.node)
                    other(x) == x.type # e.type \/ x.name \notin {e.name, new_name}
                IN /\ MapsTo(c, e.type, new_name, {e.node})
                   /\ new_name # e.name => MapsTo(c, e.type, e.name, {})
                   /\ {x \in Entries(c) : other(x)}
                         = {x \in Entries(contexts[key]) : other(x)}
       /\ (/\ res'.op = "ApplyNodeConfig"
           /\ Truthy(nodes'[res'.obj].d.name)
           /\ nodes'[res'.obj].d.name # nodes[res'.obj].d.name
           /\ MapsTo(GlobalContext, nodes[res'.obj].cls, nodes[res'.obj].d.name,
                     {res'.obj}))
          => /\ MapsTo(contexts'[GCK], nodes[res'.obj].cls,
                       nodes'[res'.obj].d.name, {res'.obj})
             /\ MapsTo(contexts'[GCK], nodes[res'.obj].cls,
                       nodes[res'.obj].d.name, {})
             /\ \A key \in (DOMAIN contexts) \ {GCK} : contexts'[key] = contexts[key]
             /\ acts' = acts /\ actions' = actions]_vars

\* the editor renamed a Global node while Global held another node and the
\* container an action
C21_Witness ==
    /\ res.op = "ApplyNodeConfig"
    /\ MapsTo(GlobalContext, nodes[res.obj].cls, NameY, {res.obj})
    /\ Len(NodeIter(GlobalContext)) >= 2
    /\ actions # <<>>


(***************************************************************************)
(* Plugin documents.  A setting is what yaml.load returns for a plugin     *)
(* file: [inherit, data, actions], inherit <<>> or <<the setting of the    *)
(* inherited file>>, data the strings under data._, actions the pairs      *)
(* [dts, catss] of the actions section in document order.  An empty        *)
(* document and the record of three empty sections register the same:      *)
(* nothing.                                                                *)
(***************************************************************************)
MaxInherit == 1   \* documents a plugin file inherits, one from the other

\* type(GCK), the key of the actions of the global context
GlobalContextKey == "GlobalContextKey"

\* strings of a document: a section title, and a class path with no class
SectionString == "[Basic]"
MissingClass == "Missing"
None == "None"

\* get_node_type of use_plugins: a section string as it is, the class of a
\* class path, None (after the message) when GetClass finds no such class
GetNodeType(cls_path) ==
    IF cls_path = SectionString THEN cls_path
    ELSE IF GetClassRaises(cls_path) THEN None ELSE cls_path

RegisterGlobalDataType(reg, node_type) ==
    [reg EXCEPT !.global_node_types = Append(@, node_type)]

\* _context_action_types is a defaultdict(list)
RegisterContextAction(reg, context_type, action_type) ==
    LET t == reg.context_action_types IN
    [reg EXCEPT !.context_action_types =
        IF context_type \in DOMAIN t
        THEN [t EXCEPT ![context_type] = Append(@, action_type)]
        ELSE t @@ (context_type :> <<action_type>>)]

\* a use_plugins that clears nothing
KeepRegistry(reg) == reg

\* Container._context_action_types.clear(); Container._global_node_types.clear()
ClearRegistry(reg) == EmptyRegistry

\* use_plugins(setting_fpath, clean) up to the quick tasks and quick
\* actions, which it keeps on the classes
RECURSIVE UsePluginsOn(_, _, _)
UsePluginsOn(reg, setting, clean) ==
    LET cleaned == IF clean THEN ClearRegistry(reg) ELSE reg
        inherited == IF setting.inherit # <<>>
                     THEN UsePluginsOn(cleaned, setting.inherit[1], FALSE)
                     ELSE cleaned
        RECURSIVE Data(_)
        Data(i) ==
            IF i = 0 THEN inherited
            ELSE LET node_type == GetNodeType(setting.data[i]) IN
                 IF node_type # None THEN RegisterGlobalDataType(Data(i - 1), node_type)
                 ELSE Data(i - 1)
        RECURSIVE Catss(_, _, _, _)
        Catss(r, context_type, catss, j) ==
            IF j = 0 THEN r
            ELSE LET action_type == GetNodeType(catss[j]) IN
                 IF action_type # None
                 THEN RegisterContextAction(Catss(r, context_type, catss, j - 1),
                                            context_type, action_type)
                 ELSE Catss(r, context_type, catss, j - 1)
        RECURSIVE Actions(_)
        Actions(i) ==
            IF i = 0 THEN Data(Len(setting.data))
            ELSE LET dts == setting.actions[i].dts
                     catss == setting.actions[i].catss
                 IN IF dts = "_"
                    THEN Catss(Actions(i - 1), GlobalContextKey, catss, Len(catss))
                    ELSE IF GetNodeType(dts) = None THEN Actions(i - 1)
                    ELSE Catss(Actions(i - 1), GetNodeType(dts), catss, Len(catss))
    IN Actions(Len(setting.actions))

\* the sections of the plugin files of the model
SettingData == {<<>>, <<SimpleDefinition>>, <<MissingClass, TimeData>>}
SettingActions ==
    {<<>>,
     <<[dts |-> "_", catss |-> <<LoadAction>>]>>,
     <<[dts |-> TimeData, catss |-> <<TruncAction, SectionString, MissingClass>>],
       [dts |-> MissingClass, catss |-> <<LoadAction>>],
       [dts |-> "_", catss |-> <<TruncAction>>]>>}

\* the plugin files that inherit from at most n files, one from the other
RECURSIVE SettingFiles(_)
SettingFiles(n) ==
    IF n = 0
    THEN {[inherit |-> <<>>, data |-> d, actions |-> a] :
             d \in SettingData, a \in SettingActions}
    ELSE SettingFiles(n - 1) \cup
         {[inherit |-> <<b>>, data |-> d, actions |-> a] :
             b \in SettingFiles(n - 1), d \in SettingData, a \in SettingActions}

\* apply_plugins_file of the Plugins menu: use_plugins(f, clean=True)
UsePlugins(setting) ==
    /\ Tick
    /\ registry' = UsePluginsOn(registry, setting, TRUE)
    /\ res' = Returned("UsePlugins", 0)
    /\ UNCHANGED <<nodes, acts, actions, contexts, current_key, workers, file,
                   project_config_fpath>>

NextPlugins == \E setting \in SettingFiles(MaxInherit) : UsePlugins(setting)

SpecPlugins == Init /\ [][NextPlugins]_vars

\* the settings of a file and of the files it inherits from, base first
RECURSIVE InheritChain(_)
InheritChain(setting) ==
    IF setting.inherit = <<>> THEN <<setting>>
    ELSE Append(InheritChain(setting.inherit[1]), setting)

RECURSIVE Flatten(_)
Flatten(seqs) == IF seqs = <<>> THEN <<>> ELSE Head(seqs) \o Flatten(Tail(seqs))

Resolved(strings) == SelectSeq(strings, LAMBDA s : s = SectionString \/ ~GetClassRaises(s))

\* the data types a file and its inherit chain declare, base first
DeclaredData(setting) ==
    LET chain == InheritChain(setting) IN
    Flatten([i \in 1..Len(chain) |-> Resolved(chain[i].data)])

\* the action types they declare for context_type
DeclaredActions(setting, context_type) ==
    LET chain == InheritChain(setting)
        key(dts) == IF dts = "_" THEN GlobalContextKey ELSE dts
        of(doc) == LET hit == SelectSeq(doc.actions, LAMBDA e : key(e.dts) = context_type)
                   IN Flatten([i \in 1..Len(hit) |-> Resolved(hit[i].catss)])
    IN Flatten([i \in 1..Len(chain) |-> of(chain[i])])

ContextTypes == {GlobalContextKey, SectionString} \cup DataClasses

\* C22: whatever was registered before, use_plugins with clean leaves the
\* global data-type list and the context-type -> action-type table with
\* exactly the entries the loaded file and the files of its inherit chain
\* declare, the base file's first, and with no entry of an earlier load.
C22_NoStaleEntries ==
    \A setting \in SettingFiles(MaxInherit) :
        LET reg == UsePluginsOn(registry, setting, TRUE) IN
        /\ reg.global_node_types = DeclaredData(setting)
        /\ \A context_type \in ContextTypes :
              (IF context_type \in DOMAIN reg.context_action_types
               THEN reg.context_action_types[context_type] ELSE <<>>)
                 = DeclaredActions(setting, context_type)
        /\ DOMAIN reg.context_action_types
              = {t \in ContextTypes : DeclaredActions(setting, t) # <<>>}

\* a third load left the types of an inherited file before those of the
\* file itself
C22_Witness ==
    /\ res.op = "UsePlugins"
    /\ steps >= 3
    /\ registry.global_node_types = <<SimpleDefinition, TimeData>>
    /\ GlobalContextKey \in DOMAIN registry.context_action_types
    /\ registry.context_action_types[GlobalContextKey] = <<LoadAction, TruncAction>>


\* the places of container.actions behind action a (all of them when a is
\* not in the list) whose action the run-all is to execute: not visual and
\* of the current key
PlacesBehind(A, lst, key, a) ==
    LET at == {i \in 1..Len(lst) : lst[i] = a}
        from == IF at = {} THEN 0 ELSE CHOOSE i \in at : TRUE
    IN SelectSeq([i \in 1..Len(lst) |-> i],
                 LAMBDA i : /\ i > from
                            /\ A[lst[i]].context_key = key
                            /\ ~IsVAB(A[lst[i]].cls))

\* C23: run-all executes the non-visual actions of the current key one at a
\* time in the order of the action list: what a handler of the run-all
\* passes to run_action are the next such actions of container.actions
\* behind the one that just completed (from the top when the run-all
\* starts), none left out and none twice, each after the one before it
\* completed, and the run-all ends only when none is left.
C23_RunAllSequential ==
    [][res'.chain # NoChain =>
         LET c == res'.chain[1]
             todo == PlacesBehind(acts', actions', current_key',
                                  IF res'.op = "WorkerDone" THEN res'.obj ELSE 0)
         IN /\ Len(c.ran) <= Len(todo)
            /\ \A i \in 1..Len(c.ran) :
                  /\ c.ran[i] = actions'[todo[i]]
                  /\ ~IsVAB(acts'[c.ran[i]].cls)
                  /\ i < Len(c.ran) => acts'[c.ran[i]].status = COMPLETE
            /\ c.ended => Len(c.ran) = Len(todo)]_vars


\* C24: in every context every stored entry (T, n) |-> node has a node of
\* type T whose name is n.
C24_KeyIsName ==
    \A key \in DOMAIN contexts :
        \A e \in Entries(contexts[key]) :
            /\ nodes[e.node].cls = e.type
            /\ nodes[e.node].d.name = e.name


\* C25: current_key is GCK or a node the Global context holds now, and the
\* container has a context only for GCK and for nodes the Global context
\* holds.
C25_CurrentKeyPresent ==
    /\ current_key = GCK \/ current_key \in GlobalItems
    /\ \A key \in DOMAIN contexts : key = GCK \/ key \in GlobalItems


\* C26: parse_save_config leaves the configuration passed to it as it was,
\* so that it can be parsed a second time, to the same container: checked
\* for the configuration of the file a load has just parsed.
C26_ParsePure ==
    (res.op = "LoadProject" /\ res.raised = "") =>
        LET config == file[project_config_fpath[1]]
            after == ConfigAfterParse(config)
        IN /\ after = config
           /\ ~ParseRaises(after)
           /\ ParseSaveConfig(after) = ParseSaveConfig(config)


\* C27: the result nodes of an action that ran on a worker are added to the
\* context of the action's own context_key, whatever context is current
\* when the worker completes, and to no other context.
C27_ResultsToOwnContext ==
    [][res'.op = "WorkerDone" =>
         LET own == acts[res'.obj].context_key
             new == (Len(nodes) + 1)..Len(nodes')
         IN \A n \in new :
               \A key \in DOMAIN contexts' :
                  (\E e \in Entries(contexts'[key]) : e.node = n) <=> key = own]_vars


\* C28: an action is Complete only if its stored configuration is the one
\* its last execution was resolved from: when a worker completes and leaves
\* its action Complete, the stored configuration of the action resolves to
\* the parameters the worker ran with.
C28_CompleteOfStoredConfig ==
    [][(res'.op = "WorkerDone" /\ acts'[res'.obj].status = COMPLETE) =>
         \E w \in 1..Len(workers) :
            /\ workers[w].act = res'.obj
            /\ LET a == acts'[res'.obj]
                   r == PrepareParamsForAction(contexts, current_key,
                                               SIGNATURE(a.cls), a.cc)
               IN r.ok /\ r.val = workers[w].params]_vars


\* C29: remove_global_node(node) for a node the Global context does not
\* hold leaves the container as it is, when it returns: the Global context
\* with every other node, the contexts and the actions.  Checked for every
\* node object of the heap that Global does not hold.
C29_RemoveAbsentNode ==
    \A node_object \in (DOMAIN nodes) \ GlobalItems :
        CtxHasKey(GlobalContext, nodes[node_object].cls, nodes[node_object].d.name)
           => /\ RemoveGlobalNodeContexts(contexts, node_object) = contexts
              /\ RemoveGlobalNodeActions(actions, node_object) = actions


(***************************************************************************)
(* An application beside two project files: the one of SpecOpen and one    *)
(* with a record whose class no module defines.                            *)
(***************************************************************************)
UnloadableFile ==
    [actions |-> <<>>,
     global_nodes |-> << [uuid |-> NodeUuid(1), class |-> MissingClass,
                          cfg |-> [name |-> NameX]] >>]

InitFiles ==
    /\ nodes = <<>>
    /\ acts = <<>>
    /\ actions = <<>>
    /\ contexts = (GCK :> EmptyContext)
    /\ current_key = GCK
    /\ workers = <<>>
    /\ file = <<OpenedFile, UnloadableFile>>
    /\ project_config_fpath = NoPath
    /\ registry = EmptyRegistry
    /\ res = Returned("init", 0)
    /\ steps = 0

SpecFiles == InitFiles /\ [][Next]_vars

\* C30: a load that fails leaves the project state as it was: the held
\* container and the remembered project file path, the path a following
\* save writes the container to.
C30_FailedLoadKeepsProject ==
    [][(res'.op = "LoadProject" /\ res'.raised # "") =>
          /\ Container' = Container
          /\ project_config_fpath' = project_config_fpath]_vars

====
